---------------------------- MODULE Spec2Model ----------------------------
(***************************************************************************)
(* Model of the access-control API "Guarda" (app/routes/access.py and the  *)
(* recognizers and tables it reads).                                       *)
(*                                                                         *)
(* Conventions                                                             *)
(*  - An optional value (Python None / SQL NULL) is a set: None is {} and  *)
(*    a present value x is {x}.                                            *)
(*  - A text is a tuple of one-character strings.                          *)
(*  - A response message is the tuple of the sentences that the handler    *)
(*    joins with " ".join(message_parts).                                  *)
(*  - Distances are kept squared, in units of 0.1: dist <= tolerance is    *)
(*    decided as dist^2 <= tolerance^2, which orders the same way.         *)
(*  - The sentences of the messages are written without their accents    *)
(*    ("Veiculo nao autorizado." for "Veículo não autorizado.").           *)
(***************************************************************************)
EXTENDS Integers, Sequences, FiniteSets, TLC

VARIABLES persons, vehicles, authorizations, req, resp

vars == <<persons, vehicles, authorizations, req, resp>>

\* ------------------------------------------------------------------------
\* Optional values
\* ------------------------------------------------------------------------
None == {}

Some(x) == {x}

The(o) == CHOOSE x \in o : TRUE

\* ------------------------------------------------------------------------
\* Bounds of the model
\* ------------------------------------------------------------------------
\* Largest number of rows of the database at start, all tables together.
MaxRows == 3

\* Number of coordinates of a face embedding (stands for the 128 of the code).
EmbDim == 2

\* ------------------------------------------------------------------------
\* Plate text: normalisation, classification, display (plate_recognizer.py)
\* ------------------------------------------------------------------------
UpperLetters ==
    <<"A","B","C","D","E","F","G","H","I","J","K","L","M",
      "N","O","P","Q","R","S","T","U","V","W","X","Y","Z">>

LowerLetters ==
    <<"a","b","c","d","e","f","g","h","i","j","k","l","m",
      "n","o","p","q","r","s","t","u","v","w","x","y","z">>

Digits == {"0","1","2","3","4","5","6","7","8","9"}

Range(s) == {s[i] : i \in DOMAIN s}

IsUpper(c) == c \in Range(UpperLetters)

IsLower(c) == c \in Range(LowerLetters)

IsDigit(c) == c \in Digits

\* str.upper() on one character.
ToUpper(c) ==
    IF IsLower(c)
    THEN UpperLetters[CHOOSE i \in DOMAIN LowerLetters : LowerLetters[i] = c]
    ELSE c

\* str.upper() on a text.
Upper(text) == [i \in DOMAIN text |-> ToUpper(text[i])]

\* str.strip(): leading and trailing blanks removed.
RECURSIVE StripLeft(_)
StripLeft(text) ==
    IF text # <<>> /\ Head(text) = " " THEN StripLeft(Tail(text)) ELSE text

RECURSIVE StripRight(_)
StripRight(text) ==
    IF text # <<>> /\ text[Len(text)] = " "
    THEN StripRight(SubSeq(text, 1, Len(text) - 1))
    ELSE text

Strip(text) == StripRight(StripLeft(text))

\* The normalization without .upper().
_normalize_plate_text_NoUpper(text) ==
    SelectSeq(text, LAMBDA c : IsUpper(c) \/ IsLower(c) \/ IsDigit(c))

\* re.sub(r"[^A-Za-z0-9]", "", text).upper()
_normalize_plate_text(text) ==
    Upper(SelectSeq(text, LAMBDA c : IsUpper(c) \/ IsLower(c) \/ IsDigit(c)))

\* OLD_PLATE_RE = ^[A-Z]{3}[0-9]{4}$
OLD_PLATE_RE(s) ==
    /\ Len(s) = 7
    /\ \A i \in 1..3 : IsUpper(s[i])
    /\ \A i \in 4..7 : IsDigit(s[i])

\* MERCOSUL_PLATE_RE = ^[A-Z]{3}[0-9][A-Z][0-9]{2}$
MERCOSUL_PLATE_RE(s) ==
    /\ Len(s) = 7
    /\ \A i \in 1..3 : IsUpper(s[i])
    /\ IsDigit(s[4])
    /\ IsUpper(s[5])
    /\ \A i \in 6..7 : IsDigit(s[i])

\* The classification without the default: 7 characters of neither shape
\* are "unknown".
_classify_plate_NoDefault(normalized) ==
    IF Len(normalized) = 7 /\ MERCOSUL_PLATE_RE(normalized) THEN "mercosul"
    ELSE IF Len(normalized) = 7 /\ OLD_PLATE_RE(normalized) THEN "old"
    ELSE "unknown"

_classify_plate(normalized) ==
    IF Len(normalized) = 7 /\ MERCOSUL_PLATE_RE(normalized) THEN "mercosul"
    ELSE IF Len(normalized) = 7 /\ OLD_PLATE_RE(normalized) THEN "old"
    ELSE IF Len(normalized) = 7 THEN "mercosul"
    ELSE "unknown"

\* The display without the hyphen of the old format.
_format_display_NoHyphen(normalized, format_type) ==
    IF Len(normalized) >= 7 THEN SubSeq(normalized, 1, 7) ELSE normalized

_format_display(normalized, format_type) ==
    IF format_type = "old" /\ Len(normalized) >= 7
    THEN SubSeq(normalized, 1, 3) \o <<"-">> \o SubSeq(normalized, 4, 7)
    ELSE IF Len(normalized) >= 7 THEN SubSeq(normalized, 1, 7) ELSE normalized

\* The PlateResult built from one OCR text (already normalised), lines
\* 106-114 and 125-133; confidence in tenths.
PlateResult(text, confidence) ==
    [raw_text    |-> text,
     normalized  |-> _format_display(text, _classify_plate(text)),
     format_type |-> _classify_plate(text),
     confidence  |-> confidence]

\* The loop over the candidate regions (lines 99-116): `best` after the
\* regions texts[1..n] were visited in order.
RECURSIVE BestOfRois(_, _)
BestOfRois(texts, n) ==
    IF n = 0 THEN None
    ELSE LET best == BestOfRois(texts, n - 1)
             text == _normalize_plate_text(Strip(texts[n]))
         IN  IF Len(text) >= 6
             THEN IF best = None \/ Len(text) >= Len(The(best).raw_text)
                  THEN Some(PlateResult(text, 8))
                  ELSE best
             ELSE best

\* The recognizer with a fallback that accepts any text that is not empty.
recognize_plate_from_image_AnyFallback(image) ==
    IF image.size = 0 THEN None
    ELSE LET best == BestOfRois(image.rois, Len(image.rois))
         IN  IF best = None
             THEN LET text == _normalize_plate_text(Strip(image.whole))
                  IN  IF Len(text) >= 1 THEN Some(PlateResult(text, 5)) ELSE None
             ELSE best

\* An image is what the external collaborators see in it:
\*   size  - number of pixels (image.size),
\*   rois  - the OCR text of each candidate region, in detector order,
\*   whole - the OCR text of the whole image,
\*   face  - the embedding of the predominant face, None when no face.
recognize_plate_from_image(image) ==
    IF image.size = 0 THEN None
    ELSE LET best == BestOfRois(image.rois, Len(image.rois))
         IN  IF best = None
             THEN LET text == _normalize_plate_text(Strip(image.whole))
                  IN  IF Len(text) >= 6 THEN Some(PlateResult(text, 5)) ELSE None
             ELSE best

\* The calls of pytesseract.image_to_string that recognize_plate_from_image
\* makes, in order: one per candidate region (line 103), then one on the
\* whole image when the loop left `best` at None (lines 119-122).
OcrCalls(image) ==
    IF image.size = 0 THEN <<>>
    ELSE [i \in 1..Len(image.rois) |-> "roi"]
            \o (IF BestOfRois(image.rois, Len(image.rois)) = None THEN <<"whole">> ELSE <<>>)

\* ------------------------------------------------------------------------
\* Face embeddings and the matcher (face_service.py)
\* ------------------------------------------------------------------------
\* Settings.face_tolerance = 0.6, in units of 0.1.
face_tolerance == 6

\* A stored embedding is a text of comma-separated fields.  A field that
\* float() accepts carries its value; one that float() rejects carries None.
Num(n) == [tok |-> "float", val |-> Some(n)]

Junk == [tok |-> "x", val |-> None]

\* The empty string: "".split(",") is the single empty field.
EmptyStr == <<[tok |-> "", val |-> None]>>

\* ",".join(str(float(x)) for x in embedding)
_embedding_to_str(embedding) == [i \in DOMAIN embedding |-> Num(embedding[i])]

\* np.array([float(x) for x in s.split(",")]): None when float() raises.
_str_to_embedding(s) ==
    IF \E i \in DOMAIN s : s[i].val = None
    THEN None
    ELSE Some([i \in DOMAIN s |-> The(s[i].val)])

RECURSIVE SumSq(_, _, _)
SumSq(stored, embedding, n) ==
    IF n = 0 THEN 0
    ELSE LET a == IF Len(stored) = 1 THEN stored[1] ELSE stored[n]
         IN  (a - embedding[n]) * (a - embedding[n]) + SumSq(stored, embedding, n - 1)

\* numpy can subtract a (1, k) array and a (n,) array when k = n or k = 1
\* (broadcasting); otherwise it raises ValueError.
Broadcastable(stored, embedding) ==
    Len(stored) = Len(embedding) \/ Len(stored) = 1

\* face_recognition.face_distance([stored], embedding)[0], squared.
face_distance(stored, embedding) == SumSq(stored, embedding, Len(embedding))

\* dist <= tolerance on the distances themselves: the model keeps squares,
\* and a tolerance below zero admits no distance.
WithinTolerance(dist, tolerance) ==
    tolerance >= 0 /\ dist <= tolerance * tolerance

\* The loop with `dist <= best.distance` in place of `dist < best.distance`:
\* on equal distances the later entry replaces the earlier one.
RECURSIVE CompareLoop_LastOnTie(_, _, _, _)
CompareLoop_LastOnTie(embedding, stored_embeddings, tolerance, n) ==
    IF n = 0 THEN [error |-> FALSE, best |-> None]
    ELSE LET prev   == CompareLoop_LastOnTie(embedding, stored_embeddings, tolerance, n - 1)
             entry  == stored_embeddings[n]
             stored == _str_to_embedding(entry.emb_str)
         IN  IF prev.error THEN prev
             ELSE IF stored = None THEN prev
             ELSE IF ~Broadcastable(The(stored), embedding)
                  THEN [error |-> TRUE, best |-> None]
             ELSE LET dist == face_distance(The(stored), embedding)
                  IN  IF /\ WithinTolerance(dist, tolerance)
                         /\ (prev.best = None \/ dist <= The(prev.best).distance)
                      THEN [error |-> FALSE,
                            best  |-> Some([person_id |-> entry.person_id,
                                            name      |-> entry.name,
                                            distance  |-> dist,
                                            matched   |-> TRUE])]
                      ELSE prev

\* The loop of compare_face_to_embeddings over stored_embeddings[1..n]:
\* [error |-> an exception left the loop, best |-> the best match so far].
RECURSIVE CompareLoop(_, _, _, _)
CompareLoop(embedding, stored_embeddings, tolerance, n) ==
    IF n = 0 THEN [error |-> FALSE, best |-> None]
    ELSE LET prev   == CompareLoop(embedding, stored_embeddings, tolerance, n - 1)
             entry  == stored_embeddings[n]
             stored == _str_to_embedding(entry.emb_str)
         IN  IF prev.error THEN prev
             ELSE IF stored = None THEN prev
             ELSE IF ~Broadcastable(The(stored), embedding)
                  THEN [error |-> TRUE, best |-> None]
             ELSE LET dist == face_distance(The(stored), embedding)
                  IN  IF /\ WithinTolerance(dist, tolerance)
                         /\ (prev.best = None \/ dist < The(prev.best).distance)
                      THEN [error |-> FALSE,
                            best  |-> Some([person_id |-> entry.person_id,
                                            name      |-> entry.name,
                                            distance  |-> dist,
                                            matched   |-> TRUE])]
                      ELSE prev

compare_face_to_embeddings(embedding, stored_embeddings, tolerance) ==
    CompareLoop(embedding, stored_embeddings, tolerance, Len(stored_embeddings))

\* embedding_from_image: the embedding of the predominant face, or None.
embedding_from_image(image) == image.face

\* ------------------------------------------------------------------------
\* The tables (models.py)
\* ------------------------------------------------------------------------
\* persons        : id -> [name, is_active, face_embedding (optional text)]
\* vehicles       : id -> [plate, is_active]
\* authorizations : id -> [person_id, vehicle_id (optional ids), is_active]
Person(name, is_active, face_embedding) ==
    [name |-> name, is_active |-> is_active, face_embedding |-> face_embedding]

Vehicle(plate, is_active) == [plate |-> plate, is_active |-> is_active]

Authorization(person_id, vehicle_id, is_active) ==
    [person_id |-> person_id, vehicle_id |-> vehicle_id, is_active |-> is_active]

\* Result.scalar_one_or_none() of a query whose rows are the set S; the
\* queries it is used on select by plate, which is unique (models.py:32).
scalar_one_or_none(S) == IF S = {} THEN None ELSE Some(CHOOSE x \in S : TRUE)

\* ActiveVehicleByPlate without the filter Vehicle.is_active == True.
ActiveVehicleByPlate_AnyStatus(plate) ==
    scalar_one_or_none({id \in DOMAIN vehicles : vehicles[id].plate = plate})

\* select(Vehicle).where(Vehicle.plate == plate, Vehicle.is_active == True)
ActiveVehicleByPlate(plate) ==
    scalar_one_or_none({id \in DOMAIN vehicles :
        vehicles[id].plate = plate /\ vehicles[id].is_active})

\* select(Person.id, Person.name, Person.face_embedding).where(is_active,
\* face_embedding IS NOT NULL, face_embedding != ""), then the rows with a
\* truthy r[2]; `order` is the rows of the query in the order in which the
\* database returns them (the query has no ORDER BY), see RowOrders.
StoredEmbeddings(order) ==
    LET rows == order
        kept == SelectSeq(rows, LAMBDA id : The(persons[id].face_embedding) # <<>>)
    IN  [i \in DOMAIN kept |->
            [person_id |-> kept[i],
             name      |-> persons[kept[i]].name,
             emb_str   |-> The(persons[kept[i]].face_embedding)]]

\* PedestrianAuths without the filter Authorization.is_active == True.
PedestrianAuths_AnyStatus(person_id) ==
    {a \in DOMAIN authorizations :
        /\ authorizations[a].person_id = Some(person_id)
        /\ authorizations[a].vehicle_id = None}

\* q_ped: active authorizations of the person with vehicle_id IS NULL.
PedestrianAuths(person_id) ==
    {a \in DOMAIN authorizations :
        /\ authorizations[a].person_id = Some(person_id)
        /\ authorizations[a].is_active
        /\ authorizations[a].vehicle_id = None}

\* q2: active authorizations of the person with vehicle_id IS NOT NULL.
PersonVehicleAuths(person_id) ==
    {a \in DOMAIN authorizations :
        /\ authorizations[a].person_id = Some(person_id)
        /\ authorizations[a].is_active
        /\ authorizations[a].vehicle_id # None}

\* vq of check 3b: select(Vehicle).where(plate == vehicle_plate, id IN ids)
VehicleByPlateIn(vehicle_plate, vehicle_ids) ==
    scalar_one_or_none({id \in DOMAIN vehicles :
        vehicles[id].plate = vehicle_plate /\ id \in vehicle_ids})

\* q_veh: active authorizations with person_id IS NULL for the vehicle.
VehicleOnlyAuths(vid) ==
    {a \in DOMAIN authorizations :
        /\ authorizations[a].person_id = None
        /\ authorizations[a].vehicle_id = Some(vid)
        /\ authorizations[a].is_active}

\* ------------------------------------------------------------------------
\* The three authorization checks (access.py 96-134 and 222-257).  Each
\* returns whether it grants access and the queries it issued.
\* ------------------------------------------------------------------------
NoCheck == [hit |-> FALSE, queries |-> <<>>]

\* 3a) Pedestre
PedestrianCheck(person_id) ==
    [hit |-> PedestrianAuths(person_id) # {}, queries |-> <<"q_ped">>]

\* 3b) Pessoa + veiculo
PersonVehicleCheck(person_id, vehicle_plate) ==
    LET auths       == PersonVehicleAuths(person_id)
        vehicle_ids == {The(authorizations[a].vehicle_id) : a \in auths}
    IN  IF vehicle_ids # {}
        THEN [hit     |-> VehicleByPlateIn(vehicle_plate, vehicle_ids) # None,
              queries |-> <<"q_person_vehicle", "vq_in_ids">>]
        ELSE [hit |-> FALSE, queries |-> <<"q_person_vehicle">>]

\* 3c) So veiculo
VehicleOnlyCheck(vehicle_plate) ==
    LET vid == ActiveVehicleByPlate(vehicle_plate)
    IN  IF vid # None
        THEN [hit     |-> VehicleOnlyAuths(The(vid)) # {},
              queries |-> <<"vq_id", "q_veh">>]
        ELSE [hit |-> FALSE, queries |-> <<"vq_id">>]

\* The queries that belong to checks 2 and 3.
LaterCheckQueries == {"q_person_vehicle", "vq_in_ids", "vq_id", "q_veh"}

\* ------------------------------------------------------------------------
\* Uploads and responses
\* ------------------------------------------------------------------------
\* An upload is [present, empty, image]:
\*   present - the part was sent and has a filename,
\*   empty   - its content is b"",
\*   image   - what cv2.imdecode returns for the content (None: undecodable).
Upload(present, empty, image) ==
    [present |-> present, empty |-> empty, image |-> image]

\* _decode_image(content)
_decode_image(upload) == upload.image

AccessCheckResponse(endpoint, allowed, person_id, person_name, vehicle_plate, vehicle_authorized, message, queries) ==
    [endpoint           |-> endpoint,
     status             |-> 200,
     allowed            |-> allowed,
     person_id          |-> person_id,
     person_name        |-> person_name,
     vehicle_plate      |-> vehicle_plate,
     vehicle_authorized |-> vehicle_authorized,
     message            |-> message,
     queries            |-> queries]

\* raise HTTPException(status_code, detail), or an exception that leaves the
\* handler (status 500).
HTTPException(endpoint, status_code, detail, queries) ==
    [endpoint |-> endpoint, status |-> status_code, detail |-> detail,
     queries |-> queries]

\* ------------------------------------------------------------------------
\* POST /access/check (access.py 28-160)
\* ------------------------------------------------------------------------
\* 1) Placa (lines 47-63)
AccessPlateStage(plate_image) ==
    LET img    == IF plate_image.present /\ ~plate_image.empty
                  THEN _decode_image(plate_image) ELSE None
        result == IF img # None THEN recognize_plate_from_image(The(img)) ELSE None
        read   == result # None /\ The(result).normalized # <<>>
        v      == IF read THEN ActiveVehicleByPlate(The(result).normalized) ELSE None
    IN  [vehicle_plate      |-> IF read THEN Some(The(result).normalized) ELSE None,
         plate_ok           |-> read,
         vehicle_authorized |-> IF read THEN Some(v # None) ELSE None,
         message_parts      |-> IF read /\ v = None
                                THEN <<"Veiculo nao autorizado.">> ELSE <<>>,
         queries            |-> IF read THEN <<"vehicle_by_plate">> ELSE <<>>]

\* AccessFaceStage without the test `if embedding is not None`: the matcher
\* is called with None and the exception leaves the handler.
AccessFaceStage_NoFaceRaises(face_image, order) ==
    LET nobody(parts, queries) ==
            [error |-> FALSE, person_id |-> None, person_name |-> None,
             message_parts |-> parts, queries |-> queries]
    IN  IF ~face_image.present
        THEN nobody(<<"Envie face_image para verificar pessoa.">>, <<>>)
        ELSE IF face_image.empty
        THEN nobody(<<"Imagem do rosto vazia.">>, <<>>)
        ELSE IF _decode_image(face_image) = None
        THEN nobody(<<>>, <<>>)
        ELSE LET embedding == embedding_from_image(The(_decode_image(face_image)))
             IN  IF embedding = None
                 THEN [error |-> TRUE, person_id |-> None, person_name |-> None,
                       message_parts |-> <<>>, queries |-> <<"gallery">>]
                 ELSE LET match == compare_face_to_embeddings(
                                       The(embedding), StoredEmbeddings(order),
                                       face_tolerance)
                      IN  IF match.error
                          THEN [error |-> TRUE, person_id |-> None,
                                person_name |-> None, message_parts |-> <<>>,
                                queries |-> <<"gallery">>]
                          ELSE IF match.best # None
                          THEN [error         |-> FALSE,
                                person_id     |-> Some(The(match.best).person_id),
                                person_name   |-> Some(The(match.best).name),
                                message_parts |-> <<>>,
                                queries       |-> <<"gallery">>]
                          ELSE nobody(<<"Pessoa nao reconhecida.">>, <<"gallery">>)

\* 2) Rosto (lines 65-94)
AccessFaceStage(face_image, order) ==
    LET nobody(parts, queries) ==
            [error |-> FALSE, person_id |-> None, person_name |-> None,
             message_parts |-> parts, queries |-> queries]
    IN  IF ~face_image.present
        THEN nobody(<<"Envie face_image para verificar pessoa.">>, <<>>)
        ELSE IF face_image.empty
        THEN nobody(<<"Imagem do rosto vazia.">>, <<>>)
        ELSE IF _decode_image(face_image) = None
        THEN nobody(<<>>, <<>>)
        ELSE LET embedding == embedding_from_image(The(_decode_image(face_image)))
             IN  IF embedding = None
                 THEN nobody(<<"Nenhum rosto detectado.">>, <<>>)
                 ELSE LET match == compare_face_to_embeddings(
                                       The(embedding), StoredEmbeddings(order),
                                       face_tolerance)
                      IN  IF match.error
                          THEN [error |-> TRUE, person_id |-> None,
                                person_name |-> None, message_parts |-> <<>>,
                                queries |-> <<"gallery">>]
                          ELSE IF match.best # None
                          THEN [error         |-> FALSE,
                                person_id     |-> Some(The(match.best).person_id),
                                person_name   |-> Some(The(match.best).name),
                                message_parts |-> <<>>,
                                queries       |-> <<"gallery">>]
                          ELSE nobody(<<"Pessoa nao reconhecida.">>, <<"gallery">>)

\* AccessAuthorization without the tests `not allowed`: the three checks
\* are all evaluated.
AccessAuthorization_AllChecks(person_id, vehicle_plate, vehicle_authorized) ==
    LET ped == IF person_id # None THEN PedestrianCheck(The(person_id)) ELSE NoCheck
        pv  == IF person_id # None /\ vehicle_plate # None
               THEN PersonVehicleCheck(The(person_id), The(vehicle_plate))
               ELSE NoCheck
        veh == IF /\ vehicle_plate # None /\ The(vehicle_plate) # <<>>
                  /\ vehicle_authorized = Some(TRUE)
               THEN VehicleOnlyCheck(The(vehicle_plate))
               ELSE NoCheck
    IN  [allowed |-> ped.hit \/ pv.hit \/ veh.hit,
         queries |-> ped.queries \o pv.queries \o veh.queries]

\* 3) Autorizacao (lines 96-134): the first check that is satisfied allows.
AccessAuthorization(person_id, vehicle_plate, vehicle_authorized) ==
    LET ped == IF person_id # None THEN PedestrianCheck(The(person_id)) ELSE NoCheck
        pv  == IF ~ped.hit /\ person_id # None /\ vehicle_plate # None
               THEN PersonVehicleCheck(The(person_id), The(vehicle_plate))
               ELSE NoCheck
        veh == IF /\ ~(ped.hit \/ pv.hit)
                  /\ vehicle_plate # None /\ The(vehicle_plate) # <<>>
                  /\ vehicle_authorized = Some(TRUE)
               THEN VehicleOnlyCheck(The(vehicle_plate))
               ELSE NoCheck
    IN  [allowed |-> ped.hit \/ pv.hit \/ veh.hit,
         queries |-> ped.queries \o pv.queries \o veh.queries]

\* AccessMessage with the tests of lines 146-149 in the other order: the
\* collected parts are reported before `allowed` is looked at.
AccessMessage_PartsFirst(allowed, message_parts, person_id, vehicle_plate, vehicle_authorized) ==
    IF message_parts # <<>> THEN message_parts
    ELSE IF allowed THEN <<"Acesso autorizado.">>
    ELSE IF person_id = None /\ vehicle_plate = None
    THEN <<"Envie face_image (e opcionalmente plate_image) para verificacao.">>
    ELSE IF person_id # None
    THEN <<"Pessoa sem autorizacao de entrada a pe.">>
    ELSE IF vehicle_plate # None /\ vehicle_authorized = Some(TRUE)
    THEN <<"Placa sem autorizacao (so veiculo).">>
    ELSE <<"Rosto ou placa nao reconhecidos.">>

\* Lines 136-151: the message of the response.
AccessMessage(allowed, message_parts, person_id, vehicle_plate, vehicle_authorized) ==
    LET parts ==
            IF ~allowed /\ message_parts = <<>>
            THEN IF person_id = None /\ vehicle_plate = None
                 THEN <<"Envie face_image (e opcionalmente plate_image) para verificacao.">>
                 ELSE IF person_id # None
                 THEN <<"Pessoa sem autorizacao de entrada a pe.">>
                 ELSE IF vehicle_plate # None /\ vehicle_authorized = Some(TRUE)
                 THEN <<"Placa sem autorizacao (so veiculo).">>
                 ELSE <<"Rosto ou placa nao reconhecidos.">>
            ELSE message_parts
    IN  IF allowed THEN <<"Acesso autorizado.">>
        ELSE IF parts # <<>> THEN parts
        ELSE <<"Acesso negado.">>

check_access(plate_image, face_image, order) ==
    LET plate == AccessPlateStage(plate_image)
        face  == AccessFaceStage(face_image, order)
        auth  == AccessAuthorization(face.person_id, plate.vehicle_plate,
                                     plate.vehicle_authorized)
    IN  IF face.error
        THEN HTTPException("check_access", 500, "Internal Server Error",
                           plate.queries \o face.queries)
        ELSE AccessCheckResponse(
                 "check_access", auth.allowed, face.person_id, face.person_name,
                 plate.vehicle_plate, plate.vehicle_authorized,
                 AccessMessage(auth.allowed,
                               plate.message_parts \o face.message_parts,
                               face.person_id, plate.vehicle_plate,
                               plate.vehicle_authorized),
                 plate.queries \o face.queries \o auth.queries)

\* ------------------------------------------------------------------------
\* POST /access/check/camera (access.py 163-281)
\* ------------------------------------------------------------------------
\* The camera is [opened, frame1, frame2]: cap.isOpened(), and for each of
\* the two cap.read() calls the frame, None when ret is false or frame None.
Camera(opened, frame1, frame2) ==
    [opened |-> opened, frame1 |-> frame1, frame2 |-> frame2]

\* Python truth of an optional id and of an optional text.
TruthyId(o) == o # None /\ The(o) # 0

TruthyText(o) == o # None /\ The(o) # <<>>

TruthyName(o) == o # None /\ The(o) # ""

\* CameraPlateStage with a vehicle query that lacks the filter
\* Vehicle.is_active == True.
CameraPlateStage_AnyStatus(plate_frame) ==
    LET result_plate == recognize_plate_from_image(plate_frame)
        read == result_plate # None /\ The(result_plate).normalized # <<>>
        v    == IF read THEN ActiveVehicleByPlate_AnyStatus(The(result_plate).normalized)
                ELSE None
    IN  [vehicle_plate      |-> IF read THEN Some(The(result_plate).normalized)
                                ELSE None,
         vehicle_authorized |-> IF read THEN Some(v # None) ELSE None,
         queries            |-> IF read THEN <<"vehicle_by_plate">> ELSE <<>>]

\* Lines 189-200
CameraPlateStage(plate_frame) ==
    LET result_plate == recognize_plate_from_image(plate_frame)
        read == result_plate # None /\ The(result_plate).normalized # <<>>
        v    == IF read THEN ActiveVehicleByPlate(The(result_plate).normalized)
                ELSE None
    IN  [vehicle_plate      |-> IF read THEN Some(The(result_plate).normalized)
                                ELSE None,
         vehicle_authorized |-> IF read THEN Some(v # None) ELSE None,
         queries            |-> IF read THEN <<"vehicle_by_plate">> ELSE <<>>]

\* Lines 202-218
CameraFaceStage(face_frame, order) ==
    LET embedding == embedding_from_image(face_frame)
    IN  IF embedding = None
        THEN [error |-> FALSE, person_id |-> None, person_name |-> None,
              queries |-> <<>>]
        ELSE LET match == compare_face_to_embeddings(
                              The(embedding), StoredEmbeddings(order), face_tolerance)
             IN  IF match.error
                 THEN [error |-> TRUE, person_id |-> None, person_name |-> None,
                       queries |-> <<"gallery">>]
                 ELSE IF match.best # None
                 THEN [error       |-> FALSE,
                       person_id   |-> Some(The(match.best).person_id),
                       person_name |-> Some(The(match.best).name),
                       queries     |-> <<"gallery">>]
                 ELSE [error |-> FALSE, person_id |-> None, person_name |-> None,
                       queries |-> <<"gallery">>]

\* CameraAuthorization with the vehicle-only check made only when no person
\* was matched.
CameraAuthorization_VehicleNeedsNoPerson(person_id, vehicle_plate, vehicle_authorized) ==
    LET ped == IF TruthyId(person_id) THEN PedestrianCheck(The(person_id))
               ELSE NoCheck
        pv  == IF ~ped.hit /\ TruthyId(person_id) /\ TruthyText(vehicle_plate)
               THEN PersonVehicleCheck(The(person_id), The(vehicle_plate))
               ELSE NoCheck
        veh == IF /\ ~(ped.hit \/ pv.hit)
                  /\ ~TruthyId(person_id)
                  /\ TruthyText(vehicle_plate)
                  /\ vehicle_authorized = Some(TRUE)
               THEN VehicleOnlyCheck(The(vehicle_plate))
               ELSE NoCheck
    IN  [allowed |-> ped.hit \/ pv.hit \/ veh.hit,
         queries |-> ped.queries \o pv.queries \o veh.queries]

\* Lines 220-257
CameraAuthorization(person_id, vehicle_plate, vehicle_authorized) ==
    LET ped == IF TruthyId(person_id) THEN PedestrianCheck(The(person_id))
               ELSE NoCheck
        pv  == IF ~ped.hit /\ TruthyId(person_id) /\ TruthyText(vehicle_plate)
               THEN PersonVehicleCheck(The(person_id), The(vehicle_plate))
               ELSE NoCheck
        veh == IF /\ ~(ped.hit \/ pv.hit)
                  /\ TruthyText(vehicle_plate)
                  /\ vehicle_authorized = Some(TRUE)
               THEN VehicleOnlyCheck(The(vehicle_plate))
               ELSE NoCheck
    IN  [allowed |-> ped.hit \/ pv.hit \/ veh.hit,
         queries |-> ped.queries \o pv.queries \o veh.queries]

\* Lines 258-273
CameraMessage(allowed, person_id, person_name, vehicle_plate, vehicle_authorized) ==
    LET message_parts ==
            IF ~allowed
            THEN IF ~TruthyText(vehicle_plate) /\ ~TruthyName(person_name)
                 THEN <<"Placa e rosto nao identificados.">>
                 ELSE IF TruthyId(person_id)
                 THEN <<"Pessoa sem autorizacao de entrada a pe.">>
                 ELSE IF TruthyText(vehicle_plate) /\ vehicle_authorized = Some(TRUE)
                 THEN <<"Veiculo sem autorizacao (so placa).">>
                 ELSE <<"Rosto ou placa nao reconhecidos.">>
            ELSE <<>>
    IN  IF allowed THEN <<"Acesso autorizado.">>
        ELSE IF message_parts # <<>> THEN message_parts
        ELSE <<"Acesso negado.">>

\* check_access_from_camera taking the second cap.read() for the plate when
\* the first one gave no frame.
check_access_from_camera_SecondFrame(camera, order) ==
    IF ~camera.opened
    THEN HTTPException("check_access_from_camera", 503,
                       "Camera nao disponivel. Use /access/check com upload de imagens.",
                       <<>>)
    ELSE IF camera.frame1 = None /\ camera.frame2 = None
    THEN HTTPException("check_access_from_camera", 503,
                       "Falha ao capturar frame da camera.", <<>>)
    ELSE LET plate_frame == IF camera.frame1 # None THEN The(camera.frame1)
                            ELSE The(camera.frame2)
             face_frame  == IF camera.frame2 # None THEN The(camera.frame2)
                            ELSE The(camera.frame1)
             plate == CameraPlateStage(plate_frame)
             face  == CameraFaceStage(face_frame, order)
             auth  == CameraAuthorization(face.person_id, plate.vehicle_plate,
                                          plate.vehicle_authorized)
         IN  IF face.error
             THEN HTTPException("check_access_from_camera", 500,
                                "Internal Server Error",
                                plate.queries \o face.queries)
             ELSE AccessCheckResponse(
                      "check_access_from_camera", auth.allowed, face.person_id,
                      face.person_name, plate.vehicle_plate, plate.vehicle_authorized,
                      CameraMessage(auth.allowed, face.person_id, face.person_name,
                                    plate.vehicle_plate, plate.vehicle_authorized),
                      plate.queries \o face.queries \o auth.queries)

check_access_from_camera(camera, order) ==
    IF ~camera.opened
    THEN HTTPException("check_access_from_camera", 503,
                       "Camera nao disponivel. Use /access/check com upload de imagens.",
                       <<>>)
    ELSE IF camera.frame1 = None
    THEN HTTPException("check_access_from_camera", 503,
                       "Falha ao capturar frame da camera.", <<>>)
    ELSE LET plate_frame == The(camera.frame1)
             face_frame  == IF camera.frame2 # None THEN The(camera.frame2)
                            ELSE The(camera.frame1)
             plate == CameraPlateStage(plate_frame)
             face  == CameraFaceStage(face_frame, order)
             auth  == CameraAuthorization(face.person_id, plate.vehicle_plate,
                                          plate.vehicle_authorized)
         IN  IF face.error
             THEN HTTPException("check_access_from_camera", 500,
                                "Internal Server Error",
                                plate.queries \o face.queries)
             ELSE AccessCheckResponse(
                      "check_access_from_camera", auth.allowed, face.person_id,
                      face.person_name, plate.vehicle_plate, plate.vehicle_authorized,
                      CameraMessage(auth.allowed, face.person_id, face.person_name,
                                    plate.vehicle_plate, plate.vehicle_authorized),
                      plate.queries \o face.queries \o auth.queries)

\* ------------------------------------------------------------------------
\* POST /face/verify, POST /face/register/{person_id} (face.py) and
\* POST /plate/capture/upload (plate.py): uploads declared File(...)
\* ------------------------------------------------------------------------
\* face.py 93-139
verify_face(file, order) ==
    IF file.empty
    THEN HTTPException("verify_face", 400, "Arquivo vazio.", <<>>)
    ELSE IF _decode_image(file) = None
    THEN HTTPException("verify_face", 400, "Imagem invalida.", <<>>)
    ELSE LET embedding == embedding_from_image(The(_decode_image(file)))
         IN  IF embedding = None
             THEN [endpoint |-> "verify_face", status |-> 200, matched |-> FALSE,
                   person_id |-> None, name |-> None, distance |-> None,
                   message |-> <<"Nenhum rosto detectado na imagem.">>,
                   queries |-> <<>>]
             ELSE LET match == compare_face_to_embeddings(
                                   The(embedding), StoredEmbeddings(order),
                                   face_tolerance)
                  IN  IF match.error
                      THEN HTTPException("verify_face", 500,
                                         "Internal Server Error", <<"gallery">>)
                      ELSE IF match.best # None
                      THEN [endpoint |-> "verify_face", status |-> 200,
                            matched   |-> TRUE,
                            person_id |-> Some(The(match.best).person_id),
                            name      |-> Some(The(match.best).name),
                            distance  |-> Some(The(match.best).distance),
                            message   |-> <<"Rosto reconhecido.">>,
                            queries   |-> <<"gallery">>]
                      ELSE [endpoint |-> "verify_face", status |-> 200,
                            matched |-> FALSE, person_id |-> None, name |-> None,
                            distance |-> None,
                            message |-> <<"Rosto nao reconhecido. Nenhuma correspondencia no banco.">>,
                            queries |-> <<"gallery">>]

\* face.py 185-220; `frame` is what _capture_frame_from_camera (28-41) gave,
\* None when the camera is not opened or the read fails.
verify_face_from_camera(frame, order) ==
    IF frame = None
    THEN HTTPException("verify_face_from_camera", 503,
                       "Camera nao disponivel ou falha ao capturar.", <<>>)
    ELSE LET embedding == embedding_from_image(The(frame))
         IN  IF embedding = None
             THEN [endpoint |-> "verify_face_from_camera", status |-> 200,
                   matched |-> FALSE, person_id |-> None, name |-> None,
                   distance |-> None,
                   message |-> <<"Nenhum rosto detectado.">>,
                   queries |-> <<>>]
             ELSE LET match == compare_face_to_embeddings(
                                   The(embedding), StoredEmbeddings(order),
                                   face_tolerance)
                  IN  IF match.error
                      THEN HTTPException("verify_face_from_camera", 500,
                                         "Internal Server Error", <<"gallery">>)
                      ELSE IF match.best # None
                      THEN [endpoint |-> "verify_face_from_camera", status |-> 200,
                            matched   |-> TRUE,
                            person_id |-> Some(The(match.best).person_id),
                            name      |-> Some(The(match.best).name),
                            distance  |-> Some(The(match.best).distance),
                            message   |-> <<"Rosto reconhecido.">>,
                            queries   |-> <<"gallery">>]
                      ELSE [endpoint |-> "verify_face_from_camera", status |-> 200,
                            matched |-> FALSE, person_id |-> None, name |-> None,
                            distance |-> None,
                            message |-> <<"Rosto nao reconhecido.">>,
                            queries |-> <<"gallery">>]

\* face.py 49-90: the response of register_face; its write is in the action.
register_face(person_id, file) ==
    IF file.empty
    THEN HTTPException("register_face", 400, "Arquivo vazio.", <<>>)
    ELSE IF _decode_image(file) = None
    THEN HTTPException("register_face", 400, "Imagem invalida.", <<>>)
    ELSE IF person_id \notin DOMAIN persons
    THEN HTTPException("register_face", 404, "Pessoa nao encontrada.",
                       <<"get_person">>)
    ELSE IF embedding_from_image(The(_decode_image(file))) = None
    THEN HTTPException("register_face", 400, "Nenhum rosto detectado na imagem.",
                       <<"get_person">>)
    ELSE [endpoint |-> "register_face", status |-> 200,
          person_id |-> person_id, name |-> persons[person_id].name,
          message |-> <<"Rosto cadastrado com sucesso.">>,
          queries |-> <<"get_person", "update_person">>]

\* plate.py 70-117, with the default plate_forward_enabled = False
capture_plate_from_upload(file) ==
    IF file.empty
    THEN HTTPException("capture_plate_from_upload", 400, "Arquivo vazio.", <<>>)
    ELSE IF _decode_image(file) = None
    THEN HTTPException("capture_plate_from_upload", 400, "Imagem invalida.", <<>>)
    ELSE LET result == recognize_plate_from_image(The(_decode_image(file)))
         IN  IF result = None
             THEN [endpoint |-> "capture_plate_from_upload", status |-> 200,
                   plate |-> <<>>, format_type |-> "unknown", forwarded |-> FALSE,
                   message |-> <<"Nenhuma placa identificada na imagem.">>,
                   queries |-> <<>>]
             ELSE [endpoint |-> "capture_plate_from_upload", status |-> 200,
                   plate |-> The(result).normalized,
                   format_type |-> The(result).format_type, forwarded |-> FALSE,
                   message |-> <<"Placa reconhecida com sucesso.">>,
                   queries |-> <<>>]

\* ------------------------------------------------------------------------
\* Sample inputs
\* ------------------------------------------------------------------------
\* OCR texts: a Mercosul plate, an old-format plate, a plate of no
\* registered vehicle, and a text too short to be a plate.
TextMercosul == <<"A","B","C","1","D","2","3">>

TextOld == <<"a","b","c","-","1","2","3","4">>

TextOther == <<"X","Y","Z"," ","7","7","8","8">>

TextShort == <<"A","B">>

\* What the region detector and the OCR find in an image: no text at all,
\* a plate in the only region, a plate in the second region, a plate only
\* in the whole image.
PlateScenes ==
    {[rois |-> <<>>,                   whole |-> <<>>],
     [rois |-> <<TextMercosul>>,       whole |-> <<>>],
     [rois |-> <<TextShort, TextOld>>, whole |-> <<>>],
     [rois |-> <<TextShort>>,          whole |-> TextOther]}

NoText == [rois |-> <<>>, whole |-> <<>>]

\* An embedding with first coordinate c and the others 0.
Vec(c) == [i \in 1..EmbDim |-> IF i = 1 THEN c ELSE 0]

\* Faces enrolled by register_face, and faces presented to the checks:
\* Vec(3) is at distance 0.3 of Vec(0) and 0.7 of Vec(10).
EnrollFaces == {Vec(0), Vec(10)}

ProbeFaces == {None, Some(Vec(3)), Some(Vec(10))}

Image(scene, face) ==
    [size |-> 1, rois |-> scene.rois, whole |-> scene.whole, face |-> face]

Absent == Upload(FALSE, TRUE, None)

Empty == Upload(TRUE, TRUE, None)

Undecodable == Upload(TRUE, FALSE, None)

PlateUploads ==
    {Empty, Undecodable}
        \cup {Upload(TRUE, FALSE, Some(Image(s, None))) : s \in PlateScenes}

FaceUploads ==
    {Empty, Undecodable}
        \cup {Upload(TRUE, FALSE, Some(Image(NoText, f))) : f \in ProbeFaces}

EnrollUploads ==
    {Empty, Undecodable, Upload(TRUE, FALSE, Some(Image(NoText, None)))}
        \cup {Upload(TRUE, FALSE, Some(Image(NoText, Some(f)))) : f \in EnrollFaces}

Frames == {Image(s, f) : s \in PlateScenes, f \in {None, Some(Vec(10))}}

Cameras ==
    {Camera(FALSE, None, None)}
        \cup {Camera(TRUE, None, f2) :
                 f2 \in {None, Some(Image(NoText, Some(Vec(3))))}}
        \cup {Camera(TRUE, Some(f1), f2) :
                 f1 \in Frames,
                 f2 \in {None, Some(Image(NoText, None)),
                         Some(Image(NoText, Some(Vec(3))))}}

\* The plates and names of the rows present at start, by id.
SeedPlates == <<TextMercosul, <<"A","B","C","-","1","2","3","4">>>>

SeedNames == <<"Ana", "Bia">>

\* The face_embedding column at start: NULL (create_person), '' (rows
\* older than the migration that made the column nullable), or a text
\* written by register_face.
SeedEmbeddings ==
    {None, Some(EmptyStr)} \cup {Some(_embedding_to_str(f)) : f \in EnrollFaces}

\* RowOrders of a gallery query without the filter Person.is_active == True.
RowOrders_AnyStatus ==
    LET ids == {id \in DOMAIN persons :
                   /\ persons[id].face_embedding # None
                   /\ persons[id].face_embedding # Some(EmptyStr)}
        n   == Cardinality(ids)
    IN  {o \in [1..n -> ids] : \A i, j \in 1..n : i # j => o[i] # o[j]}

\* The rows of the gallery query, in each order in which a query without
\* ORDER BY may return them.
RowOrders ==
    LET ids == {id \in DOMAIN persons :
                   /\ persons[id].is_active
                   /\ persons[id].face_embedding # None
                   /\ persons[id].face_embedding # Some(EmptyStr)}
        n   == Cardinality(ids)
    IN  {o \in [1..n -> ids] : \A i, j \in 1..n : i # j => o[i] # o[j]}

\* ------------------------------------------------------------------------
\* What a request presented, kept beside the response
\* ------------------------------------------------------------------------
UploadKind(upload) ==
    IF ~upload.present THEN "absent"
    ELSE IF upload.empty THEN "empty"
    ELSE IF upload.image = None THEN "undecodable"
    ELSE "image"

\* The plate reading of the recognizer for an optional image.
ReadingOf(image) ==
    IF image = None THEN None
    ELSE LET result == recognize_plate_from_image(The(image))
         IN  IF result = None THEN None ELSE Some(The(result).normalized)

\* The embedding of the extractor for an optional image.
FaceOf(image) == IF image = None THEN None ELSE embedding_from_image(The(image))

\* The match of the matcher for an optional embedding: None, or the
\* [person_id, name] matched.
MatchOf(embedding, order) ==
    IF embedding = None THEN None
    ELSE LET match == compare_face_to_embeddings(
                          The(embedding), StoredEmbeddings(order), face_tolerance)
         IN  IF match.error \/ match.best = None THEN None
             ELSE Some([person_id |-> The(match.best).person_id,
                        name      |-> The(match.best).name])

Request(endpoint, plate_input, face_input, reading, face, match) ==
    [endpoint    |-> endpoint,
     plate_input |-> plate_input,
     face_input  |-> face_input,
     reading     |-> reading,
     face        |-> face,
     match       |-> match]

NoRequest == Request("none", "absent", "absent", None, None, None)

\* No response is on its way to a client.
NoResponse == [endpoint |-> "none", status |-> 0, queries |-> <<>>]

Idle == resp = NoResponse

\* The image an upload is decoded to, when the handler gets that far.
Decoded(upload) ==
    IF upload.present /\ ~upload.empty THEN upload.image ELSE None

\* ------------------------------------------------------------------------
\* Initial states and actions
\* ------------------------------------------------------------------------
Init ==
    /\ \E np \in 0..Len(SeedNames) :
         \E p \in [1..np -> BOOLEAN \X SeedEmbeddings] :
            persons = [i \in 1..np |-> Person(SeedNames[i], p[i][1], p[i][2])]
    /\ \E nv \in 0..Len(SeedPlates) :
         \E v \in [1..nv -> BOOLEAN] :
            vehicles = [i \in 1..nv |-> Vehicle(SeedPlates[i], v[i])]
    /\ \E na \in 0..(MaxRows - Len(persons) - Len(vehicles)) :
         authorizations \in
            [1..na -> {Authorization(p, v, b) :
                          p \in {None} \cup {Some(i) : i \in DOMAIN persons},
                          v \in {None} \cup {Some(i) : i \in DOMAIN vehicles},
                          b \in BOOLEAN} \ {Authorization(None, None, b) : b \in BOOLEAN}]
    /\ req = NoRequest
    /\ resp = NoResponse

\* CheckAccess with a write: the pedestrian records of the matched person
\* are set inactive once the decision is taken.
CheckAccess_RevokesUsedRecords ==
    \E plate_image \in PlateUploads \cup {Absent},
       face_image \in FaceUploads \cup {Absent},
       order \in RowOrders :
        LET match == MatchOf(FaceOf(Decoded(face_image)), order)
        IN  /\ Idle
            /\ resp' = check_access(plate_image, face_image, order)
            /\ req' = Request("check_access", UploadKind(plate_image),
                              UploadKind(face_image),
                              ReadingOf(Decoded(plate_image)),
                              FaceOf(Decoded(face_image)), match)
            /\ authorizations' =
                  [a \in DOMAIN authorizations |->
                      IF /\ match # None
                         /\ authorizations[a].person_id = Some(The(match).person_id)
                         /\ authorizations[a].vehicle_id = None
                      THEN [authorizations[a] EXCEPT !.is_active = FALSE]
                      ELSE authorizations[a]]
            /\ UNCHANGED <<persons, vehicles>>

CheckAccess ==
    \E plate_image \in PlateUploads \cup {Absent},
       face_image \in FaceUploads \cup {Absent},
       order \in RowOrders :
        /\ Idle
        /\ resp' = check_access(plate_image, face_image, order)
        /\ req' = Request("check_access", UploadKind(plate_image),
                          UploadKind(face_image),
                          ReadingOf(Decoded(plate_image)),
                          FaceOf(Decoded(face_image)),
                          MatchOf(FaceOf(Decoded(face_image)), order))
        /\ UNCHANGED <<persons, vehicles, authorizations>>

CheckAccessFromCamera ==
    \E camera \in Cameras, order \in RowOrders :
        LET face_frame == IF camera.frame2 # None THEN camera.frame2
                          ELSE camera.frame1
            got == camera.opened /\ camera.frame1 # None
        IN  /\ Idle
            /\ resp' = check_access_from_camera(camera, order)
            /\ req' = Request("check_access_from_camera",
                              IF got THEN "frame"
                              ELSE IF camera.opened THEN "no_frame" ELSE "closed",
                              IF camera.opened /\ camera.frame2 # None THEN "frame"
                              ELSE IF got THEN "frame"
                              ELSE IF camera.opened THEN "no_frame" ELSE "closed",
                              IF got THEN ReadingOf(camera.frame1) ELSE None,
                              IF got THEN FaceOf(face_frame) ELSE None,
                              IF got THEN MatchOf(FaceOf(face_frame), order)
                              ELSE None)
            /\ UNCHANGED <<persons, vehicles, authorizations>>

VerifyFace ==
    \E file \in FaceUploads, order \in RowOrders :
        /\ Idle
        /\ resp' = verify_face(file, order)
        /\ req' = Request("verify_face", "absent", UploadKind(file), None,
                          FaceOf(Decoded(file)),
                          MatchOf(FaceOf(Decoded(file)), order))
        /\ UNCHANGED <<persons, vehicles, authorizations>>

VerifyFaceFromCamera ==
    \E frame \in {None} \cup {Some(Image(NoText, f)) : f \in ProbeFaces},
       order \in RowOrders :
        /\ Idle
        /\ resp' = verify_face_from_camera(frame, order)
        /\ req' = Request("verify_face_from_camera", "absent",
                          IF frame = None THEN "no_frame" ELSE "frame", None,
                          FaceOf(frame), MatchOf(FaceOf(frame), order))
        /\ UNCHANGED <<persons, vehicles, authorizations>>

RegisterFace ==
    \E person_id \in 1..(Len(SeedNames) + 1), file \in EnrollUploads :
        /\ Idle
        /\ resp' = register_face(person_id, file)
        /\ req' = Request("register_face", "absent", UploadKind(file), None,
                          FaceOf(Decoded(file)), None)
        /\ persons' =
              IF register_face(person_id, file).status = 200
              THEN [persons EXCEPT ![person_id].face_embedding =
                       Some(_embedding_to_str(
                                The(embedding_from_image(The(_decode_image(file))))))]
              ELSE persons
        /\ UNCHANGED <<vehicles, authorizations>>

CapturePlateFromUpload ==
    \E file \in PlateUploads :
        /\ Idle
        /\ resp' = capture_plate_from_upload(file)
        /\ req' = Request("capture_plate_from_upload", UploadKind(file), "absent",
                          ReadingOf(Decoded(file)), None, None)
        /\ UNCHANGED <<persons, vehicles, authorizations>>

\* The response leaves for the client and the request's session is closed
\* (get_db); the next request is served.
Deliver ==
    /\ ~Idle
    /\ resp' = NoResponse
    /\ req' = NoRequest
    /\ UNCHANGED <<persons, vehicles, authorizations>>

Next ==
    \/ CheckAccess
    \/ CheckAccessFromCamera
    \/ VerifyFace
    \/ VerifyFaceFromCamera
    \/ RegisterFace
    \/ CapturePlateFromUpload
    \/ Deliver

Spec == Init /\ [][Next]_vars

\* ------------------------------------------------------------------------
\* Properties of the access decision
\* ------------------------------------------------------------------------
AccessEndpoints == {"check_access", "check_access_from_camera"}

\* A decision of one of the two access endpoints is on its way.
AccessDecision == resp.endpoint \in AccessEndpoints /\ resp.status = 200

\* The person the request's face matched, and the plate it read.
Matched == req.match # None

MatchedId == The(req.match).person_id

Read == req.reading # None

\* Rows of the vehicles table whose plate is the reading.
VehiclesRead == {v \in DOMAIN vehicles : Read /\ vehicles[v].plate = The(req.reading)}

ActiveVehiclesRead == {v \in VehiclesRead : vehicles[v].is_active}

\* Active records of the authorizations table of each of the three shapes.
ActivePedestrianRecords ==
    {a \in DOMAIN authorizations :
        /\ authorizations[a].is_active
        /\ Matched
        /\ authorizations[a].person_id = Some(MatchedId)
        /\ authorizations[a].vehicle_id = None}

ActivePersonVehicleRecords(vs) ==
    {a \in DOMAIN authorizations :
        /\ authorizations[a].is_active
        /\ Matched
        /\ authorizations[a].person_id = Some(MatchedId)
        /\ \E v \in vs : authorizations[a].vehicle_id = Some(v)}

ActiveVehicleOnlyRecords(vs) ==
    {a \in DOMAIN authorizations :
        /\ authorizations[a].is_active
        /\ authorizations[a].person_id = None
        /\ \E v \in vs : authorizations[a].vehicle_id = Some(v)}

\* C1: access is allowed only if an active authorization record is (a) a
\* pedestrian record of the matched person, (b) a record of the matched
\* person with the vehicle whose plate is the reading, or (c) a vehicle-only
\* record of the vehicle whose plate is the reading.
C1_AllowedOnlyByActiveRecord ==
    (AccessDecision /\ resp.allowed) =>
        \/ ActivePedestrianRecords # {}
        \/ ActivePersonVehicleRecords(VehiclesRead) # {}
        \/ ActiveVehicleOnlyRecords(VehiclesRead) # {}

\* Access allowed to a matched person who also has an inactive pedestrian
\* record.
C1_Witness ==
    /\ AccessDecision /\ resp.allowed /\ Matched
    /\ \E a \in DOMAIN authorizations :
          /\ ~authorizations[a].is_active
          /\ authorizations[a].person_id = Some(MatchedId)
          /\ authorizations[a].vehicle_id = None

\* The place of a query in the fixed order of the checks.
CheckRank(q) ==
    IF q = "q_ped" THEN 1
    ELSE IF q \in {"q_person_vehicle", "vq_in_ids"} THEN 2
    ELSE IF q \in {"vq_id", "q_veh"} THEN 3
    ELSE 0

C3_InactiveVehicleNeverGrants ==
    ( /\ AccessDecision
      /\ ActivePersonVehicleRecords(VehiclesRead) # {}
      /\ ActiveVehiclesRead = {}
      /\ ActivePedestrianRecords = {}
      /\ ActiveVehicleOnlyRecords(ActiveVehiclesRead) = {} )
    => ~resp.allowed

\* C4: whenever one of the three check conditions holds, the response is
\* allowed with the message "Acesso autorizado.", whatever else failed.
C4_SatisfiedCheckAllows ==
    ( /\ resp.endpoint \in AccessEndpoints
      /\ \/ ActivePedestrianRecords # {}
         \/ ActivePersonVehicleRecords(ActiveVehiclesRead) # {}
         \/ ActiveVehicleOnlyRecords(ActiveVehiclesRead) # {} )
    => /\ resp.status = 200
       /\ resp.allowed
       /\ resp.message = <<"Acesso autorizado.">>

\* A pedestrian is allowed although the plate that was read is not the plate
\* of an active vehicle.
C4_Witness ==
    /\ AccessDecision /\ resp.allowed
    /\ ActivePedestrianRecords # {}
    /\ Read /\ ActiveVehiclesRead = {}
    /\ resp.vehicle_authorized = Some(FALSE)
    /\ resp.message = <<"Acesso autorizado.">>

\* C5: a plate that resolves to an active vehicle with an active
\* vehicle-only record is allowed with vehicle_authorized true, and with
\* person_id null when no face matched; a face that is not recognised, or a
\* person without authorizations, does not change the decision.
C5_VehicleOnlyAllows ==
    ( /\ resp.endpoint \in AccessEndpoints
      /\ ActiveVehicleOnlyRecords(ActiveVehiclesRead) # {} )
    => /\ resp.status = 200
       /\ resp.allowed
       /\ resp.vehicle_authorized = Some(TRUE)
       /\ resp.vehicle_plate = req.reading
       /\ ~Matched => resp.person_id = None /\ resp.person_name = None

\* A vehicle with a vehicle-only record is allowed while the face in the
\* image matched nobody.
C5_Witness ==
    /\ AccessDecision /\ resp.allowed
    /\ ActiveVehicleOnlyRecords(ActiveVehiclesRead) # {}
    /\ req.face # None /\ ~Matched
    /\ resp.person_id = None

\* The same, the face being of a person who has no authorization at all.
C5_WitnessPersonWithout ==
    /\ AccessDecision /\ resp.allowed
    /\ ActiveVehicleOnlyRecords(ActiveVehiclesRead) # {}
    /\ Matched
    /\ \A a \in DOMAIN authorizations :
          authorizations[a].person_id # Some(MatchedId)

\* C6: a denial names exactly one reason.
C6_DenialHasOneReason ==
    (AccessDecision /\ ~resp.allowed) => Len(resp.message) = 1

\* The reasons a denial can name.
VehicleNotRegisteredReasons ==
    {"Veiculo nao autorizado.", "Rosto ou placa nao reconhecidos."}

PersonNotRecognizedReasons ==
    {"Pessoa nao reconhecida.", "Rosto ou placa nao reconhecidos.",
     "Placa e rosto nao identificados."}

VehicleUnauthorizedReasons ==
    {"Placa sem autorizacao (so veiculo).", "Veiculo sem autorizacao (so placa)."}

PersonUnauthorizedReasons == {"Pessoa sem autorizacao de entrada a pe."}

NothingIdentifiedGenericReasons ==
    {"Envie face_image (e opcionalmente plate_image) para verificacao.",
     "Placa e rosto nao identificados."}

Names(reasons) == \E i \in DOMAIN resp.message : resp.message[i] \in reasons

\* C7: the reason of a denial is chosen with the precedence vehicle not
\* registered for a plate read that is of no active vehicle, person not
\* recognised for a face that matched nobody, the vehicle reason for a
\* matched person and a registered vehicle both without authorization, the
\* person reason when only a face was matched, and nothing identified only
\* when neither a plate nor a person was recognised.
C7_DenialPrecedence ==
    (AccessDecision /\ ~resp.allowed) =>
        /\ (Read /\ ActiveVehiclesRead = {}) =>
              Names(VehicleNotRegisteredReasons)
        /\ (req.face # None /\ ~Matched /\ ~(Read /\ ActiveVehiclesRead = {})) =>
              Names(PersonNotRecognizedReasons)
        /\ (Matched /\ ActiveVehiclesRead # {}) =>
              Names(VehicleUnauthorizedReasons)
        /\ (Matched /\ ~Read) =>
              Names(PersonUnauthorizedReasons)
        /\ Names(NothingIdentifiedGenericReasons) => (~Read /\ ~Matched)

\* C8: vehicle_plate is the reading or null, vehicle_authorized is null
\* exactly when there is no reading and otherwise tells whether an active
\* vehicle has that plate, and person_id and person_name are those of the
\* matched person or null, whether access is allowed or denied.
C8_ResponseEchoesRecognition ==
    AccessDecision =>
        /\ resp.vehicle_plate = req.reading
        /\ resp.vehicle_authorized = None <=> ~Read
        /\ Read => resp.vehicle_authorized = Some(ActiveVehiclesRead # {})
        /\ resp.person_id = None <=> ~Matched
        /\ resp.person_name = None <=> ~Matched
        /\ Matched =>
              /\ resp.person_id = Some(MatchedId)
              /\ resp.person_name = Some(persons[MatchedId].name)

\* A denial that carries the plate read, vehicle_authorized true and the
\* person matched.
C8_Witness ==
    /\ AccessDecision /\ ~resp.allowed
    /\ Read /\ Matched
    /\ resp.vehicle_authorized = Some(TRUE)
    /\ resp.person_id = Some(MatchedId)

\* The request presented what it could and nothing was identified: no plate
\* image or no plate text read, and no face image, no face found or no
\* gallery match.
NothingIdentified ==
    /\ req.endpoint \in AccessEndpoints
    /\ req.plate_input \in {"absent", "image", "frame"}
    /\ req.face_input \in {"absent", "image", "frame"}
    /\ ~Read
    /\ ~Matched

NothingIdentifiedReasons ==
    {"Envie face_image para verificar pessoa.",
     "Nenhum rosto detectado.",
     "Pessoa nao reconhecida.",
     "Placa e rosto nao identificados."}

\* C9: when neither a plate nor a person is identified the response is a
\* normal decision, status 200 with allowed false and a message saying that
\* nothing was identified, and not an error.
C9_NothingIdentifiedIsDenial ==
    NothingIdentified =>
        /\ resp.status = 200
        /\ ~resp.allowed
        /\ Len(resp.message) = 1
        /\ resp.message[1] \in NothingIdentifiedReasons

\* An image with neither plate text nor a face was presented to each of
\* the two endpoints.
C9_Witness ==
    /\ NothingIdentified
    /\ req.plate_input \in {"image", "frame"}
    /\ req.face = None
    /\ resp.status = 200 /\ ~resp.allowed

\* The queries of the policy evaluation.
PolicyQueries == {"q_ped"} \cup LaterCheckQueries

\* C10: an upload that is present but empty or undecodable is answered with
\* a request-validation failure and the policy is not evaluated on it.
C10_InputErrorsRejected ==
    ( /\ req.endpoint \in {"check_access", "verify_face", "register_face",
                           "capture_plate_from_upload"}
      /\ \/ req.plate_input \in {"empty", "undecodable"}
         \/ req.face_input \in {"empty", "undecodable"} )
    => /\ resp.status \in {400, 422}
       /\ \A i \in DOMAIN resp.queries : resp.queries[i] \notin PolicyQueries

\* ------------------------------------------------------------------------
\* Camera unavailability and the tables under the access checks
\* ------------------------------------------------------------------------
\* The camera could not be opened, or its first read gave no frame.
CameraUnavailable ==
    /\ req.endpoint = "check_access_from_camera"
    /\ req.plate_input \in {"closed", "no_frame"}

\* C11: when the camera cannot be opened or the first frame cannot be read,
\* check_access_from_camera ends with status 503, produces no decision
\* (no allowed field), issues no database query and does not make up for
\* the failed read with another one.
C11_CameraUnavailableIs503 ==
    /\ CameraUnavailable =>
          /\ resp.status = 503
          /\ "allowed" \notin DOMAIN resp
          /\ resp.queries = <<>>
    /\ (resp.endpoint = "check_access_from_camera" /\ resp.status = 503) =>
          CameraUnavailable

\* The first read failed while the second read of the same request gave a
\* frame, and the answer is 503 all the same.
C11_Witness ==
    /\ CameraUnavailable
    /\ req.plate_input = "no_frame"
    /\ req.face_input = "frame"
    /\ resp.status = 503
    /\ authorizations # <<>>

\* A request of one of the two access endpoints is being served or its
\* response is being delivered and its session closed.
AccessStep ==
    \/ resp'.endpoint \in AccessEndpoints
    \/ resp.endpoint \in AccessEndpoints

\* C12: check_access and check_access_from_camera are read-only: from the
\* arrival of the request to the close of its session the rows of persons,
\* vehicles and authorizations, and every field of them, stay as they were.
C12_AccessChecksReadOnly ==
    [][AccessStep => UNCHANGED <<persons, vehicles, authorizations>>]_vars

\* A decision taken on a database that holds rows of the three tables, one
\* of them an active pedestrian record of the matched person.
C12_Witness ==
    /\ AccessDecision
    /\ persons # <<>> /\ vehicles # <<>>
    /\ ActivePedestrianRecords # {}
    /\ resp.allowed

\* ------------------------------------------------------------------------
\* The CRUD routes (persons.py, vehicles.py, authorizations.py)
\* ------------------------------------------------------------------------
\* Most ids a table hands out in the CRUD specification.
MaxIds == 2

\* The id the table's sequence gives the next row.  Ids are only compared
\* for equality, and a delete removes every reference to the id it frees.
NextId(table) ==
    IF DOMAIN table = {} THEN 1
    ELSE 1 + CHOOSE m \in DOMAIN table : \A i \in DOMAIN table : i <= m

\* db.add(row) and commit: the table with the row under a new id.
Insert(table, row) ==
    [i \in DOMAIN table \cup {NextId(table)} |->
        IF i \in DOMAIN table THEN table[i] ELSE row]

\* The table without the rows of the ids.
Remove(table, ids) == [i \in DOMAIN table \ ids |-> table[i]]

\* The response of a CRUD route that ends normally.
CrudResponse(endpoint, status_code) ==
    [endpoint |-> endpoint, status |-> status_code, queries |-> <<>>]

\* VehicleCreate.plate: Field(..., min_length=6, max_length=20)
VehicleCreate(plate) == Len(plate) >= 6 /\ Len(plate) <= 20

\* vehicles.py line 15: data.plate.upper().strip()
plate_upper(plate) == Strip(Upper(plate))

\* vehicles.py lines 16-17: the row that already has the plate, if any.
ExistingVehicle(plate) ==
    scalar_one_or_none({id \in DOMAIN vehicles : vehicles[id].plate = plate})

\* authorizations.py line 29: data.vehicle_id if data.vehicle_id else None
FalsyToNone(o) == IF o # None /\ The(o) = 0 THEN None ELSE o

\* create_authorization without the test of lines 30-34.
create_authorization_Unchecked(data_person_id, data_vehicle_id) ==
    LET person_id  == data_person_id
        vehicle_id == FalsyToNone(data_vehicle_id)
    IN  IF person_id # None /\ The(person_id) \notin DOMAIN persons
        THEN HTTPException("create_authorization", 404,
                           "Pessoa nao encontrada.", <<>>)
        ELSE IF vehicle_id # None /\ The(vehicle_id) \notin DOMAIN vehicles
        THEN HTTPException("create_authorization", 404,
                           "Veiculo nao encontrado.", <<>>)
        ELSE CrudResponse("create_authorization", 200)

\* authorizations.py 18-47: the response of create_authorization; the record
\* is added exactly when the status is 200.
create_authorization(data_person_id, data_vehicle_id) ==
    LET person_id  == data_person_id
        vehicle_id == FalsyToNone(data_vehicle_id)
    IN  IF person_id = None /\ vehicle_id = None
        THEN HTTPException("create_authorization", 400,
                           "Informe person_id ou apenas vehicle_id.", <<>>)
        ELSE IF person_id # None /\ The(person_id) \notin DOMAIN persons
        THEN HTTPException("create_authorization", 404,
                           "Pessoa nao encontrada.", <<>>)
        ELSE IF vehicle_id # None /\ The(vehicle_id) \notin DOMAIN vehicles
        THEN HTTPException("create_authorization", 404,
                           "Veiculo nao encontrado.", <<>>)
        ELSE CrudResponse("create_authorization", 200)

\* vehicles.py 15-18: validation of the body and the existence check; None
\* when the handler goes on to the insert.
create_vehicle_check(plate) ==
    IF ~VehicleCreate(plate)
    THEN Some(HTTPException("create_vehicle", 422, "Unprocessable Entity", <<>>))
    ELSE IF ExistingVehicle(plate_upper(plate)) # None
    THEN Some(HTTPException("create_vehicle", 400, "Placa ja cadastrada.", <<>>))
    ELSE None

\* create_vehicle_commit on a column plate declared without unique=True.
create_vehicle_commit_NotUnique(plate) ==
    [resp     |-> CrudResponse("create_vehicle", 200),
     vehicles |-> Insert(vehicles, Vehicle(plate, TRUE))]

\* vehicles.py 19-23: db.add(vehicle) and commit on the column plate declared
\* unique (models.py 32): the insert of a plate that a row already has
\* raises IntegrityError, which leaves the handler, and the session is
\* rolled back (database.py 21-23).
create_vehicle_commit(plate) ==
    IF ExistingVehicle(plate) # None
    THEN [resp     |-> HTTPException("create_vehicle", 500,
                                     "Internal Server Error", <<>>),
          vehicles |-> vehicles]
    ELSE [resp     |-> CrudResponse("create_vehicle", 200),
          vehicles |-> Insert(vehicles, Vehicle(plate, TRUE))]

\* delete_vehicle without the delete of the authorization records of the
\* vehicle, on foreign keys declared without ON DELETE CASCADE.
delete_vehicle_KeepsRecords(vehicle_id) ==
    IF vehicle_id \notin DOMAIN vehicles
    THEN [resp           |-> HTTPException("delete_vehicle", 404,
                                           "Veiculo nao encontrado.", <<>>),
          vehicles       |-> vehicles,
          authorizations |-> authorizations]
    ELSE [resp           |-> CrudResponse("delete_vehicle", 204),
          vehicles       |-> Remove(vehicles, {vehicle_id}),
          authorizations |-> authorizations]

\* vehicles.py 49-60: the response and the tables after delete_vehicle.
delete_vehicle(vehicle_id) ==
    IF vehicle_id \notin DOMAIN vehicles
    THEN [resp           |-> HTTPException("delete_vehicle", 404,
                                           "Veiculo nao encontrado.", <<>>),
          vehicles       |-> vehicles,
          authorizations |-> authorizations]
    ELSE [resp           |-> CrudResponse("delete_vehicle", 204),
          vehicles       |-> Remove(vehicles, {vehicle_id}),
          authorizations |->
              Remove(authorizations,
                     {a \in DOMAIN authorizations :
                         authorizations[a].vehicle_id = Some(vehicle_id)})]

\* The request of a CRUD route, kept beside its response.
CrudRequest(endpoint, person_id, vehicle_id, plate) ==
    [endpoint |-> endpoint, person_id |-> person_id, vehicle_id |-> vehicle_id,
     plate |-> plate]

\* Inputs of the CRUD routes.
CrudNames == {"Ana"}

CrudPlates ==
    {<<"a","b","c","1","d","2","3">>,
     <<" ","A","B","C","-","1","2","3","4">>,
     <<"A","B","1","2">>}

IdInputs == {None} \cup {Some(i) : i \in 0..(MaxIds + 1)}

InitCrud ==
    /\ persons = << >>
    /\ vehicles = << >>
    /\ authorizations = << >>
    /\ req = NoRequest
    /\ resp = NoResponse

\* persons.py 13-19
CreatePerson ==
    \E name \in CrudNames :
        /\ NextId(persons) <= MaxIds
        /\ persons' = Insert(persons, Person(name, TRUE, None))
        /\ resp' = CrudResponse("create_person", 200)
        /\ req' = CrudRequest("create_person", None, None, None)
        /\ UNCHANGED <<vehicles, authorizations>>

\* persons.py 44-55
DeletePerson ==
    \E person_id \in 1..MaxIds :
        /\ req' = CrudRequest("delete_person", Some(person_id), None, None)
        /\ IF person_id \notin DOMAIN persons
           THEN /\ resp' = HTTPException("delete_person", 404,
                                         "Pessoa nao encontrada.", <<>>)
                /\ UNCHANGED <<persons, authorizations>>
           ELSE /\ authorizations' =
                      Remove(authorizations,
                             {a \in DOMAIN authorizations :
                                 authorizations[a].person_id = Some(person_id)})
                /\ persons' = Remove(persons, {person_id})
                /\ resp' = CrudResponse("delete_person", 204)
        /\ UNCHANGED vehicles

\* vehicles.py 13-24, the existence check and the insert with no other call
\* between them.
CreateVehicle ==
    \E plate \in CrudPlates :
        /\ req' = CrudRequest("create_vehicle", None, None, Some(plate))
        /\ IF create_vehicle_check(plate) # None
           THEN /\ resp' = The(create_vehicle_check(plate))
                /\ UNCHANGED vehicles
           ELSE /\ NextId(vehicles) <= MaxIds
                /\ vehicles' = create_vehicle_commit(plate_upper(plate)).vehicles
                /\ resp' = create_vehicle_commit(plate_upper(plate)).resp
        /\ UNCHANGED <<persons, authorizations>>

\* vehicles.py 49-60
DeleteVehicle ==
    \E vehicle_id \in 1..MaxIds :
        /\ req' = CrudRequest("delete_vehicle", None, Some(vehicle_id), None)
        /\ resp' = delete_vehicle(vehicle_id).resp
        /\ vehicles' = delete_vehicle(vehicle_id).vehicles
        /\ authorizations' = delete_vehicle(vehicle_id).authorizations
        /\ UNCHANGED persons

\* authorizations.py 18-47
CreateAuthorization ==
    \E data_person_id \in IdInputs, data_vehicle_id \in IdInputs :
        /\ req' = CrudRequest("create_authorization", data_person_id,
                              data_vehicle_id, None)
        /\ resp' = create_authorization(data_person_id, data_vehicle_id)
        /\ IF create_authorization(data_person_id, data_vehicle_id).status = 200
           THEN /\ NextId(authorizations) <= MaxIds
                /\ authorizations' =
                      Insert(authorizations,
                             Authorization(data_person_id,
                                           FalsyToNone(data_vehicle_id), TRUE))
           ELSE UNCHANGED authorizations
        /\ UNCHANGED <<persons, vehicles>>

\* authorizations.py 64-76
DeleteAuthorization ==
    \E authorization_id \in 1..MaxIds :
        /\ req' = CrudRequest("delete_authorization", None, None, None)
        /\ IF authorization_id \notin DOMAIN authorizations
           THEN /\ resp' = HTTPException("delete_authorization", 404,
                                         "Autorizacao nao encontrada.", <<>>)
                /\ UNCHANGED authorizations
           ELSE /\ authorizations' =
                      [authorizations EXCEPT ![authorization_id].is_active = FALSE]
                /\ resp' = CrudResponse("delete_authorization", 204)
        /\ UNCHANGED <<persons, vehicles>>

NextCrud ==
    \/ CreatePerson
    \/ DeletePerson
    \/ CreateVehicle
    \/ DeleteVehicle
    \/ CreateAuthorization
    \/ DeleteAuthorization

SpecCrud == InitCrud /\ [][NextCrud]_vars

\* ------------------------------------------------------------------------
\* create_vehicle calls in flight together.  The handler awaits between the
\* existence check (vehicles.py 16-17) and the commit (21), so calls of
\* several clients interleave there.  req holds, per client, the call it
\* has in flight or has last completed.
\* ------------------------------------------------------------------------
NClients == 2

Clients == 1..NClients

Call(pc, plate, status) == [pc |-> pc, plate |-> plate, status |-> status]

NoCall == Call("idle", None, 0)

VehiclePlates ==
    {<<"a","b","c","1","d","2","3">>,
     <<"A","B","C","1","D","2","3"," ">>,
     <<"A","B","C","-","1","2","3","4">>,
     <<"A","B","1","2">>}

InitVehicles ==
    /\ persons = << >>
    /\ vehicles = << >>
    /\ authorizations = << >>
    /\ req = [c \in Clients |-> NoCall]
    /\ resp = NoResponse

\* vehicles.py 15-18: the call of client c up to the await of the commit.
CreateVehicleCheck(c) ==
    \E plate \in VehiclePlates :
        /\ req[c].pc # "checked"
        /\ IF create_vehicle_check(plate) # None
           THEN /\ resp' = The(create_vehicle_check(plate))
                /\ req' = [req EXCEPT ![c] =
                              Call("done", Some(plate_upper(plate)),
                                   The(create_vehicle_check(plate)).status)]
           ELSE /\ req' = [req EXCEPT ![c] =
                              Call("checked", Some(plate_upper(plate)), 0)]
                /\ UNCHANGED resp
        /\ UNCHANGED <<persons, vehicles, authorizations>>

\* vehicles.py 19-23: the commit of the call of client c.
CreateVehicleCommit(c) ==
    /\ req[c].pc = "checked"
    /\ NextId(vehicles) <= MaxIds
    /\ vehicles' = create_vehicle_commit(The(req[c].plate)).vehicles
    /\ resp' = create_vehicle_commit(The(req[c].plate)).resp
    /\ req' = [req EXCEPT ![c] =
                  Call("done", req[c].plate,
                       create_vehicle_commit(The(req[c].plate)).resp.status)]
    /\ UNCHANGED <<persons, authorizations>>

\* vehicles.py 49-60, between the steps of the create_vehicle calls.
DeleteVehicleBetween ==
    \E vehicle_id \in 1..MaxIds :
        /\ resp' = delete_vehicle(vehicle_id).resp
        /\ vehicles' = delete_vehicle(vehicle_id).vehicles
        /\ authorizations' = delete_vehicle(vehicle_id).authorizations
        /\ UNCHANGED <<persons, req>>

NextVehicles ==
    \/ \E c \in Clients : CreateVehicleCheck(c)
    \/ \E c \in Clients : CreateVehicleCommit(c)
    \/ DeleteVehicleBetween

SpecVehicles == InitVehicles /\ [][NextVehicles]_vars

\* ------------------------------------------------------------------------
\* Properties of the tables under the CRUD routes
\* ------------------------------------------------------------------------
\* A create_authorization call that names neither a person nor a vehicle.
NamesNeither(request) ==
    /\ request.endpoint = "create_authorization"
    /\ request.person_id = None
    /\ request.vehicle_id \in {None, Some(0)}

\* C13: after any sequence of create_authorization, delete_authorization,
\* delete_person and delete_vehicle calls every authorization record names a
\* person or a vehicle, and a create_authorization that names neither (a
\* vehicle_id of 0 included) is answered with an error and adds no record.
C13_AuthorizationNamesSomeone ==
    /\ [](\A a \in DOMAIN authorizations :
             authorizations[a].person_id # None \/ authorizations[a].vehicle_id # None)
    /\ [][NamesNeither(req') =>
             (resp'.status = 400 /\ authorizations' = authorizations)]_vars

\* A call with vehicle_id 0 and no person_id was refused while the table
\* holds a vehicle-only record and a pedestrian record.
C13_Witness ==
    /\ NamesNeither(req)
    /\ req.vehicle_id = Some(0)
    /\ resp.status = 400
    /\ \E a \in DOMAIN authorizations : authorizations[a].person_id = None
    /\ \E a \in DOMAIN authorizations : authorizations[a].vehicle_id = None

\* C14: every plate stored through create_vehicle consists only of
\* upper-case letters and digits, without hyphen, space or other separator.
C14_StoredPlateIsNormalized ==
    \A v \in DOMAIN vehicles :
        \A k \in DOMAIN vehicles[v].plate :
            IsUpper(vehicles[v].plate[k]) \/ IsDigit(vehicles[v].plate[k])

\* The plates the rows of vehicles hold.
StoredPlates == {vehicles[v].plate : v \in DOMAIN vehicles}

\* C15: under any interleaving of create_vehicle calls at most one row holds
\* a given plate string, and a call that completes for a plate that is
\* stored is rejected and leaves the vehicles as they were.
C15_PlateUniqueUnderInterleaving ==
    /\ [](\A v1, v2 \in DOMAIN vehicles :
             vehicles[v1].plate = vehicles[v2].plate => v1 = v2)
    /\ [][\A c \in Clients :
             ( /\ req'[c] # req[c]
               /\ req'[c].pc = "done"
               /\ The(req'[c].plate) \in StoredPlates )
             => (req'[c].status \in {400, 422, 500} /\ vehicles' = vehicles)]_vars

\* Two calls for one plate both passed the existence check; one inserted
\* the row and the other was refused at its commit.
C15_Witness ==
    \E c1, c2 \in Clients :
        /\ c1 # c2
        /\ req[c1].pc = "done" /\ req[c1].status = 200
        /\ req[c2].pc = "done" /\ req[c2].status = 500
        /\ req[c1].plate = req[c2].plate
        /\ The(req[c1].plate) \in StoredPlates

\* ------------------------------------------------------------------------
\* The gallery
\* ------------------------------------------------------------------------
\* The person is active and has an enrolled embedding that is not empty.
InGallery(p) ==
    /\ p \in DOMAIN persons
    /\ persons[p].is_active
    /\ persons[p].face_embedding # None
    /\ The(persons[p].face_embedding) # EmptyStr

MatchingEndpoints ==
    AccessEndpoints \cup {"verify_face", "verify_face_from_camera"}

\* C16: the person that check_access, check_access_from_camera, verify_face
\* or verify_face_from_camera returns as matched is active and has a
\* non-empty enrolled embedding; so access that is not granted on the
\* vehicle-only ground is granted to such a person only.
C16_MatchedPersonIsInGallery ==
    (resp.endpoint \in MatchingEndpoints /\ resp.status = 200) =>
        /\ resp.person_id # None => InGallery(The(resp.person_id))
        /\ ( /\ resp.endpoint \in AccessEndpoints
             /\ resp.allowed
             /\ ActiveVehicleOnlyRecords(ActiveVehiclesRead) = {} )
           => (resp.person_id # None /\ InGallery(The(resp.person_id)))

\* The face presented is the enrolled face of a person who is inactive and
\* holds an active pedestrian record; nobody is matched.
C16_Witness ==
    /\ resp.endpoint \in MatchingEndpoints /\ resp.status = 200
    /\ req.face # None
    /\ resp.person_id = None
    /\ \E p \in DOMAIN persons :
          /\ ~persons[p].is_active
          /\ persons[p].face_embedding = Some(_embedding_to_str(The(req.face)))
          /\ \E a \in DOMAIN authorizations :
                /\ authorizations[a].is_active
                /\ authorizations[a].person_id = Some(p)
                /\ authorizations[a].vehicle_id = None


\* ------------------------------------------------------------------------
\* The face matcher on its own (face_service.py)
\* ------------------------------------------------------------------------
\* Largest number of entries of a gallery handed to the matcher.
MaxGallery == 3

\* Embeddings a query carries.
MatcherEmbeddings == {Vec(0), Vec(5)}

\* Texts of the embedding column: printed vectors of the query's size, a
\* text with a field float() rejects, the empty text, a single number, and
\* a vector with one coordinate too many.
MatcherTexts ==
    {_embedding_to_str(Vec(c)) : c \in {0, 3, 5, 7}}
        \cup {<<Num(3), Junk>>, EmptyStr, <<Num(3)>>, [i \in 1..(EmbDim + 1) |-> Num(0)]}

\* Tolerances in units of 0.1: below zero, zero, 0.4 and the configured 0.6.
MatcherTolerances == {0 - 1, 0, 4, face_tolerance}

\* The (person_id, name, embedding_str) tuple at position i of a gallery.
GalleryEntry(i, emb_str) ==
    [person_id |-> i, name |-> IF i % 2 = 1 THEN "Ana" ELSE "Bia", emb_str |-> emb_str]

\* One call of compare_face_to_embeddings: its three arguments.
MatcherCall(embedding, stored_embeddings, tolerance) ==
    [embedding |-> embedding, stored_embeddings |-> stored_embeddings, tolerance |-> tolerance]

InitMatcher ==
    /\ persons = <<>>
    /\ vehicles = <<>>
    /\ authorizations = <<>>
    /\ \E embedding \in MatcherEmbeddings, tolerance \in MatcherTolerances, n \in 0..MaxGallery :
          \E texts \in [1..n -> MatcherTexts] :
             req = MatcherCall(embedding, [i \in 1..n |-> GalleryEntry(i, texts[i])], tolerance)
    /\ resp = None

\* The call returns (or raises): resp holds what came out of it.
CompareFaceToEmbeddings ==
    /\ resp = None
    /\ resp' = Some(compare_face_to_embeddings(req.embedding, req.stored_embeddings, req.tolerance))
    /\ UNCHANGED <<persons, vehicles, authorizations, req>>

NextMatcher == CompareFaceToEmbeddings

SpecMatcher == InitMatcher /\ [][NextMatcher]_vars

\* The stored vector of gallery entry i, when its text parses.
StoredOf(i) == _str_to_embedding(req.stored_embeddings[i].emb_str)

\* Entry i is well-formed: its text parses to a vector of the query's size.
WellFormed(i) ==
    /\ StoredOf(i) # None
    /\ Len(The(StoredOf(i))) = Len(req.embedding)

\* Every entry of the gallery is well-formed or has a text that does not
\* parse.
NoForeignDimension ==
    \A i \in DOMAIN req.stored_embeddings : StoredOf(i) = None \/ WellFormed(i)

\* The (squared) distance of well-formed entry i to the query.
DistanceOf(i) == face_distance(The(StoredOf(i)), req.embedding)

WellFormedEntries == {i \in DOMAIN req.stored_embeddings : WellFormed(i)}

C17_WitnessTie ==
    /\ resp # None /\ NoForeignDimension
    /\ The(resp).best # None
    /\ \E j \in WellFormedEntries :
          /\ j > The(The(resp).best).person_id
          /\ DistanceOf(j) = The(The(resp).best).distance


\* ------------------------------------------------------------------------
\* The plate text functions on their own (plate_recognizer.py)
\* ------------------------------------------------------------------------
\* Largest length of a letters-and-digits text read on a plate.
MaxPlateLen == 8

\* Largest length of the texts enumerated over the whole raw alphabet.
MaxShortLen == 3

\* Characters of the letters-and-digits texts.
PlateChars == {"A", "D", "1"}

\* Characters of a raw OCR text: letters of both cases, a digit, the
\* hyphen, the blank and punctuation.
RawChars == {"A", "b", "1", "-", " ", "."}

\* str.lower() on one character and on a text.
ToLower(c) ==
    IF IsUpper(c)
    THEN LowerLetters[CHOOSE i \in DOMAIN UpperLetters : UpperLetters[i] = c]
    ELSE c

Lower(text) == [i \in DOMAIN text |-> ToLower(text[i])]

\* The text with a separator after its third character.
WithSeparator(text, sep) ==
    IF Len(text) >= 3
    THEN SubSeq(text, 1, 3) \o <<sep>> \o SubSeq(text, 4, Len(text))
    ELSE text \o <<sep>>

\* What the OCR step may return for a plate whose characters are `core`:
\* the characters, in lower case, with a hyphen or a blank after the third,
\* or between a blank and a full stop.
OcrStyles == {"plain", "lower", "hyphen", "lower blank", "framed"}

OcrReading(core, style) ==
    CASE style = "plain"       -> core
      [] style = "lower"       -> Lower(core)
      [] style = "hyphen"      -> WithSeparator(core, "-")
      [] style = "lower blank" -> WithSeparator(Lower(core), " ")
      [] style = "framed"      -> <<" ">> \o core \o <<".">>

ExampleTexts ==
    {<<"a","b","c","-","1","2","3","4">>, <<"x","y","z","-","7","7","8","8">>, <<"A","b","C"," ","1","d","2","3">>}

NoCallYet == [op |-> "none"]

\* The raw text the functions are applied to: a reading of a plate of up
\* to MaxPlateLen characters, any text of up to MaxShortLen raw
\* characters, or one of the example texts.
InitPlate ==
    /\ persons = <<>>
    /\ vehicles = <<>>
    /\ authorizations = <<>>
    /\ \/ \E n \in 0..MaxPlateLen : \E core \in [1..n -> PlateChars] : \E style \in OcrStyles :
             req = OcrReading(core, style)
       \/ \E n \in 0..MaxShortLen : \E text \in [1..n -> RawChars] : req = text
       \/ req \in ExampleTexts
    /\ resp = NoCallYet

\* _normalize_plate_text(text), and the same applied to its own result.
NormalizePlateText ==
    /\ resp = NoCallYet
    /\ resp' = [op    |-> "normalize",
                out   |-> _normalize_plate_text(req),
                again |-> _normalize_plate_text(_normalize_plate_text(req))]
    /\ UNCHANGED <<persons, vehicles, authorizations, req>>

\* _classify_plate on the normalized text.
ClassifyPlate ==
    /\ resp = NoCallYet
    /\ resp' = [op         |-> "classify",
                normalized |-> _normalize_plate_text(req),
                out        |-> _classify_plate(_normalize_plate_text(req))]
    /\ UNCHANGED <<persons, vehicles, authorizations, req>>

\* recognize_plate_from_image on an image where OCR returns the text, for
\* its one candidate region or, with no region, for the whole image.
RecognizePlate ==
    /\ resp = NoCallYet
    /\ \E region \in BOOLEAN :
          LET scene == IF region THEN [rois |-> <<req>>, whole |-> <<>>]
                                 ELSE [rois |-> <<>>, whole |-> req]
          IN  resp' = [op     |-> "recognize",
                       region |-> region,
                       out    |-> recognize_plate_from_image(Image(scene, None))]
    /\ UNCHANGED <<persons, vehicles, authorizations, req>>

NextPlate ==
    \/ NormalizePlateText
    \/ ClassifyPlate
    \/ RecognizePlate

SpecPlate == InitPlate /\ [][NextPlate]_vars

\* ------------------------------------------------------------------------
\* Plate classification
\* ------------------------------------------------------------------------
\* 3 letters + 4 digits, and 3 letters + 1 digit + 1 letter + 2 digits,
\* stated on the characters.
OldShape(s) ==
    Len(s) = 7 /\ \A i \in 1..7 : IF i <= 3 THEN IsUpper(s[i]) ELSE IsDigit(s[i])

MercosulShape(s) ==
    Len(s) = 7 /\ \A i \in 1..7 : IF i \in {1, 2, 3, 5} THEN IsUpper(s[i]) ELSE IsDigit(s[i])

\* The classification that tests the OldFormat pattern first and the
\* Mercosul pattern second.
ClassifyOldFirst(s) ==
    IF Len(s) # 7 THEN "unknown"
    ELSE IF OldShape(s) THEN "old"
    ELSE IF MercosulShape(s) THEN "mercosul"
    ELSE "mercosul"

\* C18: for a normalized text _classify_plate returns "old" exactly for 7
\* characters of the shape 3 letters + 4 digits, "mercosul" exactly for 7
\* characters that have the Mercosul shape or neither shape, "unknown" for
\* every other length; the result is that of testing the OldFormat
\* pattern first and the Mercosul pattern second.
C18_ClassificationByShape ==
    resp.op = "classify" =>
        LET s == resp.normalized
        IN  /\ (resp.out = "old") <=> OldShape(s)
            /\ (resp.out = "mercosul") <=> (Len(s) = 7 /\ (MercosulShape(s) \/ ~OldShape(s)))
            /\ (resp.out = "unknown") <=> (Len(s) # 7)
            /\ resp.out \in {"old", "mercosul", "unknown"}
            /\ resp.out = ClassifyOldFirst(s)

\* A 7-character text of neither shape was classified, as Mercosul.
C18_Witness ==
    /\ resp.op = "classify"
    /\ Len(resp.normalized) = 7
    /\ ~OldShape(resp.normalized) /\ ~MercosulShape(resp.normalized)
    /\ resp.out = "mercosul"


\* ------------------------------------------------------------------------
\* Plate display
\* ------------------------------------------------------------------------
\* ^[A-Z]{3}-[0-9]{4}$
OldDisplayGrammar(d) ==
    /\ Len(d) = 8
    /\ \A i \in 1..3 : IsUpper(d[i])
    /\ d[4] = "-"
    /\ \A i \in 5..8 : IsDigit(d[i])

\* ^[A-Z]{3}[0-9][A-Z][0-9]{2}$
MercosulDisplayGrammar(d) == MercosulShape(d)

\* The recognizer accepted the text: it returned a reading.
Accepted == resp.op = "recognize" /\ resp.out # None

\* The three example texts are accepted and displayed as stated.
ExamplesDisplayed ==
    resp.op = "recognize" =>
        /\ req = <<"a","b","c","-","1","2","3","4">> =>
              (Accepted /\ The(resp.out).normalized = <<"A","B","C","-","1","2","3","4">>)
        /\ req = <<"x","y","z","-","7","7","8","8">> =>
              (Accepted /\ The(resp.out).normalized = <<"X","Y","Z","-","7","7","8","8">>)
        /\ req = <<"A","b","C"," ","1","d","2","3">> =>
              (Accepted /\ The(resp.out).normalized = <<"A","B","C","1","D","2","3">>)

\* C19 as stated: the display of an accepted reading classified "old"
\* matches ^[A-Z]{3}-[0-9]{4}$, the display of one classified "mercosul"
\* matches ^[A-Z]{3}[0-9][A-Z][0-9]{2}$, and the example texts display as
\* "ABC-1234", "XYZ-7788" and "ABC1D23".
C19_DisplayMatchesGrammar ==
    /\ Accepted =>
          LET reading == The(resp.out)
          IN  /\ reading.format_type = "old" => OldDisplayGrammar(reading.normalized)
              /\ reading.format_type = "mercosul" => MercosulDisplayGrammar(reading.normalized)
    /\ ExamplesDisplayed

\* C19 (amended): the display of an accepted reading classified "old"
\* matches ^[A-Z]{3}-[0-9]{4}$; the display of one classified "mercosul"
\* is its 7 normalized characters, letters A-Z and digits only, and matches
\* ^[A-Z]{3}[0-9][A-Z][0-9]{2}$ exactly when those characters have the
\* Mercosul shape (7 characters of neither shape are classified "mercosul"
\* too); the example texts display as "ABC-1234", "XYZ-7788" and "ABC1D23".
C19_DisplayOfClassifiedReading ==
    /\ Accepted =>
          LET reading == The(resp.out)
          IN  /\ reading.format_type = "old" => OldDisplayGrammar(reading.normalized)
              /\ reading.format_type = "mercosul" =>
                    /\ reading.normalized = _normalize_plate_text(req)
                    /\ Len(reading.normalized) = 7
                    /\ \A i \in 1..7 : IsUpper(reading.normalized[i]) \/ IsDigit(reading.normalized[i])
                    /\ MercosulDisplayGrammar(reading.normalized)
                          <=> MercosulShape(_normalize_plate_text(req))
    /\ ExamplesDisplayed

\* An accepted reading classified "mercosul" whose display does not have
\* the Mercosul shape.
C19_Witness ==
    /\ Accepted
    /\ The(resp.out).format_type = "mercosul"
    /\ ~MercosulDisplayGrammar(The(resp.out).normalized)

\* "abc-1234" was read and displayed as "ABC-1234".
C19_WitnessOld ==
    /\ Accepted
    /\ req = <<"a","b","c","-","1","2","3","4">>
    /\ The(resp.out).format_type = "old"
    /\ The(resp.out).normalized = <<"A","B","C","-","1","2","3","4">>

\* "AbC 1d23" was read and displayed as "ABC1D23".
C19_WitnessMercosul ==
    /\ Accepted
    /\ req = <<"A","b","C"," ","1","d","2","3">>
    /\ The(resp.out).format_type = "mercosul"
    /\ The(resp.out).normalized = <<"A","B","C","1","D","2","3">>


\* ------------------------------------------------------------------------
\* Plate text normalization
\* ------------------------------------------------------------------------
IsAlnum(c) == IsUpper(c) \/ IsLower(c) \/ IsDigit(c)

\* The letters and digits of a text in their order, letters in upper case,
\* character by character.
RECURSIVE LettersAndDigitsUpper(_)
LettersAndDigitsUpper(text) ==
    IF text = <<>> THEN <<>>
    ELSE (IF IsAlnum(Head(text)) THEN <<ToUpper(Head(text))>> ELSE <<>>)
            \o LettersAndDigitsUpper(Tail(text))

\* C20: _normalize_plate_text removes every character that is not a letter
\* or a digit and puts the rest in upper case, so its result holds only
\* A-Z and 0-9; applied to its own result it changes nothing.
C20_NormalizationIdempotent ==
    resp.op = "normalize" =>
        /\ resp.out = LettersAndDigitsUpper(req)
        /\ \A i \in DOMAIN resp.out : IsUpper(resp.out[i]) \/ IsDigit(resp.out[i])
        /\ resp.again = resp.out

\* A text with a lower-case letter and a character that is neither letter
\* nor digit was normalized to something not empty.
C20_Witness ==
    /\ resp.op = "normalize"
    /\ \E i \in DOMAIN req : IsLower(req[i])
    /\ \E i \in DOMAIN req : ~IsAlnum(req[i])
    /\ resp.out # <<>>
    /\ resp.out # req


\* ------------------------------------------------------------------------
\* The recognizer on images with several candidate regions
\* (plate_recognizer.py)
\* ------------------------------------------------------------------------
\* Most candidate regions of an image (stands for the 5 of line 84).
MaxRois == 3

\* OCR texts of a candidate region: too short, of 6, 7 and 8 letters and
\* digits, and one of 7 that is read with a hyphen.
RegionTexts ==
    {<<"A","B","1","2">>,
     <<"A","B","C","1","2","3">>,
     <<"A","B","C","1","2","3","4">>,
     <<"A","B","C","1","D","2","3">>,
     <<"x","y","z","-","7","7","8","8">>,
     <<"A","B","C","1","2","3","4","5">>}

\* OCR texts of the whole image.
WholeTexts ==
    {<<>>, <<"A","B","1","2">>, <<"Q","R","S","5","6","7","8">>}

\* An image of no pixels.
EmptyImage == [size |-> 0, rois |-> <<>>, whole |-> <<>>, face |-> None]

InitRegions ==
    /\ persons = <<>>
    /\ vehicles = <<>>
    /\ authorizations = <<>>
    /\ \/ \E n \in 0..MaxRois : \E rois \in [1..n -> RegionTexts] : \E whole \in WholeTexts :
             req = Image([rois |-> rois, whole |-> whole], None)
       \/ req = EmptyImage
    /\ resp = NoCallYet

\* recognize_plate_from_image(image): what it returns and the OCR calls it
\* made.
RecognizePlateFromImage ==
    /\ resp = NoCallYet
    /\ resp' = [op    |-> "recognize_image",
                out   |-> recognize_plate_from_image(req),
                calls |-> OcrCalls(req)]
    /\ UNCHANGED <<persons, vehicles, authorizations, req>>

NextRegions == RecognizePlateFromImage

SpecRegions == InitRegions /\ [][NextRegions]_vars

\* The normalized text of candidate region i.
RegionText(i) == _normalize_plate_text(Strip(req.rois[i]))

\* The candidate regions whose normalized text is accepted.
QualifyingRegions == {i \in DOMAIN req.rois : Len(RegionText(i)) >= 6}

\* The first of the qualifying regions with the longest text.
FirstLongestRegion ==
    CHOOSE i \in QualifyingRegions :
        /\ \A j \in QualifyingRegions : Len(RegionText(j)) <= Len(RegionText(i))
        /\ \A j \in QualifyingRegions : j < i => Len(RegionText(j)) < Len(RegionText(i))

\* C21: when some candidate region has an accepted text, the reading is
\* that of the qualifying region with the longest normalized text, and of
\* several regions of that length the first in detector order.
C21_LongestRegionFirstOnTie ==
    (resp.op = "recognize_image" /\ req.size # 0 /\ QualifyingRegions # {}) =>
        /\ resp.out # None
        /\ The(resp.out).raw_text = RegionText(FirstLongestRegion)

\* The reading is that of a longest qualifying region (first or not).
C21_LongestRegionKept ==
    (resp.op = "recognize_image" /\ req.size # 0 /\ QualifyingRegions # {}) =>
        /\ resp.out # None
        /\ \E i \in QualifyingRegions :
              /\ The(resp.out).raw_text = RegionText(i)
              /\ \A j \in QualifyingRegions : Len(RegionText(j)) <= Len(RegionText(i))


\* The normalized text of the whole image.
WholeText == _normalize_plate_text(Strip(req.whole))

\* The number of OCR calls on the whole image.
WholeCalls == Cardinality({i \in DOMAIN resp.calls : resp.calls[i] = "whole"})

\* The readings a whole-image fallback can give.
FallbackReadings ==
    {recognize_plate_from_image(Image([rois |-> <<>>, whole |-> whole], None)) : whole \in WholeTexts} \ {None}

\* C22: a reading has a normalized text of at least 6 characters; the whole
\* image is read, once, exactly when the image is not empty and no
\* candidate region gave an accepted text, and its text is accepted under
\* the same rule; when nothing qualifies the result is None; a reading that
\* comes from a region has a higher confidence than any fallback reading.
C22_AcceptanceAndFallback ==
    resp.op = "recognize_image" =>
        /\ resp.out # None => Len(The(resp.out).raw_text) >= 6
        /\ WholeCalls <= 1
        /\ (WholeCalls = 1) <=> (req.size # 0 /\ QualifyingRegions = {})
        /\ (req.size # 0 /\ QualifyingRegions = {}) =>
              IF Len(WholeText) >= 6
              THEN resp.out # None /\ The(resp.out).raw_text = WholeText
              ELSE resp.out = None
        /\ req.size = 0 => (resp.out = None /\ resp.calls = <<>>)
        /\ (req.size # 0 /\ QualifyingRegions # {}) =>
              /\ resp.out # None
              /\ \E i \in QualifyingRegions : The(resp.out).raw_text = RegionText(i)
              /\ \A f \in FallbackReadings : The(resp.out).confidence > The(f).confidence

\* Regions were read, none gave an accepted text, and the whole image gave
\* the reading.
C22_Witness ==
    /\ resp.op = "recognize_image"
    /\ req.rois # <<>>
    /\ QualifyingRegions = {}
    /\ WholeCalls = 1
    /\ resp.out # None
    /\ The(resp.out).raw_text = WholeText
    /\ The(resp.out).confidence = 5

\* Nothing qualifies: regions and whole image too short, no reading.
C22_WitnessNone ==
    /\ resp.op = "recognize_image"
    /\ req.rois # <<>>
    /\ req.whole # <<>>
    /\ resp.out = None


\* ------------------------------------------------------------------------
\* Malformed stored embeddings
\* ------------------------------------------------------------------------
\* The gallery entry is well-formed: its text parses to a vector of the
\* query's size.
WellFormedEntry(entry) ==
    /\ _str_to_embedding(entry.emb_str) # None
    /\ Len(The(_str_to_embedding(entry.emb_str))) = Len(req.embedding)

\* The gallery with the malformed entries removed.
WellFormedGallery == SelectSeq(req.stored_embeddings, WellFormedEntry)

\* C23: whatever mix of well-formed and malformed entries (unparsable
\* text, or a vector of another size than the query) the gallery holds,
\* the scan raises no error and returns what it returns for the gallery
\* with the malformed entries removed.
C23_MalformedEntriesSkipped ==
    resp # None =>
        /\ ~The(resp).error
        /\ The(resp) = compare_face_to_embeddings(req.embedding, WellFormedGallery, req.tolerance)

\* The same for galleries whose only malformed entries are unparsable
\* texts.
C23_UnparsableEntriesSkipped ==
    (resp # None /\ NoForeignDimension) =>
        /\ ~The(resp).error
        /\ The(resp) = compare_face_to_embeddings(req.embedding, WellFormedGallery, req.tolerance)


\* ------------------------------------------------------------------------
\* check_access query by query, with commits of other requests between its
\* queries (access.py 28-160, database.py 8-25)
\* ------------------------------------------------------------------------
\* The engine is created without isolation_level (database.py 8-11), so the
\* session runs at the READ COMMITTED level of PostgreSQL: each query of the
\* request sees the rows committed when it is executed.

\* Most commits of other requests that overlap one access check.
MaxOverlap == 2

\* The four fields of the response the decision consists of.
DecisionTuple(allowed, person_id, vehicle_plate, vehicle_authorized) ==
    [allowed |-> allowed, person_id |-> person_id, vehicle_plate |-> vehicle_plate, vehicle_authorized |-> vehicle_authorized]

\* The decisions of the whole check evaluated on the tables as they are
\* now, one for each order in which the gallery rows may come.
AtomicDecisions(vehicle_plate, embedding) ==
    {LET vehicle_authorized ==
             IF vehicle_plate # None
             THEN Some(ActiveVehicleByPlate(The(vehicle_plate)) # None) ELSE None
         match == MatchOf(embedding, order)
         person_id == IF match = None THEN None ELSE Some(The(match).person_id)
     IN  DecisionTuple(AccessAuthorization(person_id, vehicle_plate, vehicle_authorized).allowed,
                       person_id, vehicle_plate, vehicle_authorized) : order \in RowOrders}

\* The locals of check_access between two queries, with the decisions of
\* the database states the request has lived through so far.
CheckState(pc, vehicle_plate, embedding, vehicle_authorized, person_id, allowed, vehicle_ids, vid, commits, atomic) ==
    [pc |-> pc, vehicle_plate |-> vehicle_plate, embedding |-> embedding,
     vehicle_authorized |-> vehicle_authorized, person_id |-> person_id,
     allowed |-> allowed, vehicle_ids |-> vehicle_ids, vid |-> vid,
     commits |-> commits, atomic |-> atomic]

NoDecision == [allowed |-> FALSE, pending |-> TRUE]

\* What the recognizers return for the uploads of the request.
OverlapPlates == {None, Some(TextMercosul)}

OverlapFaces == {None, Some(Vec(3))}

\* The rows at the arrival of the request: one enrolled person, at most one
\* vehicle, and up to two authorization records.
SeedAuthorizations ==
    {Authorization(Some(1), None, TRUE), Authorization(Some(1), Some(1), TRUE), Authorization(None, Some(1), TRUE)}

InitOverlap ==
    /\ persons = <<Person("Ana", TRUE, Some(_embedding_to_str(Vec(0))))>>
    /\ vehicles \in {<<>>, <<Vehicle(TextMercosul, TRUE)>>, <<Vehicle(TextMercosul, FALSE)>>}
    /\ \E n \in 0..2 : \E rows \in [1..n -> SeedAuthorizations] :
          /\ \A a \in 1..n : rows[a].vehicle_id # None => vehicles # <<>>
          /\ authorizations = rows
    /\ \E vehicle_plate \in OverlapPlates, embedding \in OverlapFaces :
          req = CheckState("vehicle_by_plate", vehicle_plate, embedding, None, None, FALSE, {}, None, 0, {})
    /\ resp = NoDecision

Running == req.pc # "done"

\* The decisions of the states the request has lived through, the present
\* one included.
Lived == req.atomic \cup AtomicDecisions(req.vehicle_plate, req.embedding)

\* Lines 57-63: the query of the active vehicle with the plate read.
QueryVehicleByPlate ==
    /\ req.pc = "vehicle_by_plate"
    /\ req' = [req EXCEPT !.pc = "gallery", !.atomic = Lived,
                          !.vehicle_authorized =
                              IF req.vehicle_plate # None
                              THEN Some(ActiveVehicleByPlate(The(req.vehicle_plate)) # None)
                              ELSE None]
    /\ UNCHANGED <<persons, vehicles, authorizations, resp>>

\* Lines 74-88: the gallery query and the match.
QueryGallery ==
    /\ req.pc = "gallery"
    /\ \E order \in RowOrders :
          LET match == MatchOf(req.embedding, order)
          IN  req' = [req EXCEPT !.pc = "q_ped", !.atomic = Lived,
                                 !.person_id = IF match = None THEN None
                                               ELSE Some(The(match).person_id)]
    /\ UNCHANGED <<persons, vehicles, authorizations, resp>>

\* Lines 98-105: 3a) the pedestrian records of the person.
QueryPedestrian ==
    /\ req.pc = "q_ped"
    /\ req' = [req EXCEPT !.pc = "q_person_vehicle", !.atomic = Lived,
                          !.allowed = /\ req.person_id # None
                                      /\ PedestrianAuths(The(req.person_id)) # {}]
    /\ UNCHANGED <<persons, vehicles, authorizations, resp>>

\* Lines 107-114: 3b) the person + vehicle records of the person.
QueryPersonVehicle ==
    /\ req.pc = "q_person_vehicle"
    /\ req' = [req EXCEPT !.pc = "vq_in_ids", !.atomic = Lived,
                          !.vehicle_ids =
                              IF ~req.allowed /\ req.person_id # None /\ req.vehicle_plate # None
                              THEN {The(authorizations[a].vehicle_id) :
                                       a \in PersonVehicleAuths(The(req.person_id))}
                              ELSE {}]
    /\ UNCHANGED <<persons, vehicles, authorizations, resp>>

\* Lines 115-120: 3b) the vehicle with the plate among those records.
QueryVehicleInIds ==
    /\ req.pc = "vq_in_ids"
    /\ req' = [req EXCEPT !.pc = "vq_id", !.atomic = Lived,
                          !.allowed =
                              \/ req.allowed
                              \/ /\ req.vehicle_ids # {}
                                 /\ VehicleByPlateIn(The(req.vehicle_plate), req.vehicle_ids) # None]
    /\ UNCHANGED <<persons, vehicles, authorizations, resp>>

\* Lines 122-126: 3c) the id of the active vehicle with the plate.
QueryVehicleId ==
    /\ req.pc = "vq_id"
    /\ req' = [req EXCEPT !.pc = "q_veh", !.atomic = Lived,
                          !.vid =
                              IF /\ ~req.allowed
                                 /\ req.vehicle_plate # None /\ The(req.vehicle_plate) # <<>>
                                 /\ req.vehicle_authorized = Some(TRUE)
                              THEN ActiveVehicleByPlate(The(req.vehicle_plate))
                              ELSE None]
    /\ UNCHANGED <<persons, vehicles, authorizations, resp>>

\* Lines 127-134 and 153-160: 3c) the vehicle-only records, then the
\* response.
QueryVehicleOnly ==
    /\ req.pc = "q_veh"
    /\ LET allowed == \/ req.allowed
                      \/ req.vid # None /\ VehicleOnlyAuths(The(req.vid)) # {}
       IN  /\ req' = [req EXCEPT !.pc = "done", !.allowed = allowed, !.atomic = Lived]
           /\ resp' = DecisionTuple(allowed, req.person_id, req.vehicle_plate, req.vehicle_authorized)
    /\ UNCHANGED <<persons, vehicles, authorizations>>

\* The tables change under a running check: one more commit; the decisions
\* of the state that ends here are kept.
Overlapped ==
    /\ Running
    /\ req.commits < MaxOverlap
    /\ req' = [req EXCEPT !.commits = @ + 1, !.atomic = Lived]
    /\ UNCHANGED resp

\* delete_vehicle of another request commits (vehicles.py 49-60).
CommitDeleteVehicle ==
    /\ \E vehicle_id \in DOMAIN vehicles :
          /\ vehicles' = delete_vehicle(vehicle_id).vehicles
          /\ authorizations' = delete_vehicle(vehicle_id).authorizations
    /\ UNCHANGED persons
    /\ Overlapped

\* delete_person of another request commits (persons.py 44-55).
CommitDeletePerson ==
    /\ \E person_id \in DOMAIN persons :
          /\ authorizations' =
                Remove(authorizations,
                       {a \in DOMAIN authorizations :
                           authorizations[a].person_id = Some(person_id)})
          /\ persons' = Remove(persons, {person_id})
    /\ UNCHANGED vehicles
    /\ Overlapped

\* delete_authorization of another request commits (authorizations.py
\* 64-76).
CommitDeleteAuthorization ==
    /\ \E authorization_id \in DOMAIN authorizations :
          authorizations' = [authorizations EXCEPT ![authorization_id].is_active = FALSE]
    /\ UNCHANGED <<persons, vehicles>>
    /\ Overlapped

\* create_authorization of another request commits (authorizations.py
\* 18-47).
CommitCreateAuthorization ==
    /\ \E data_person_id \in {None} \cup {Some(p) : p \in DOMAIN persons},
          data_vehicle_id \in {None} \cup {Some(v) : v \in DOMAIN vehicles} :
          /\ create_authorization(data_person_id, data_vehicle_id).status = 200
          /\ authorizations' =
                Insert(authorizations,
                       Authorization(data_person_id, FalsyToNone(data_vehicle_id), TRUE))
    /\ UNCHANGED <<persons, vehicles>>
    /\ Overlapped

\* create_vehicle of another request commits (vehicles.py 13-24).
CommitCreateVehicle ==
    /\ \E plate \in {TextMercosul} :
          /\ create_vehicle_check(plate) = None
          /\ create_vehicle_commit(plate_upper(plate)).resp.status = 200
          /\ vehicles' = create_vehicle_commit(plate_upper(plate)).vehicles
    /\ UNCHANGED <<persons, authorizations>>
    /\ Overlapped

NextOverlap ==
    \/ QueryVehicleByPlate
    \/ QueryGallery
    \/ QueryPedestrian
    \/ QueryPersonVehicle
    \/ QueryVehicleInIds
    \/ QueryVehicleId
    \/ QueryVehicleOnly
    \/ CommitDeleteVehicle
    \/ CommitDeletePerson
    \/ CommitDeleteAuthorization
    \/ CommitCreateAuthorization
    \/ CommitCreateVehicle

SpecOverlap == InitOverlap /\ [][NextOverlap]_vars

\* C24: the decision returned by an access check that overlapped commits
\* of other requests is the decision of the whole check evaluated on one
\* of the database states that existed during the request.
C24_DecisionOfSomeState ==
    req.pc = "done" => resp \in req.atomic

\* Without overlapping commits the decision is that of the one state.
C24_AloneIsAtomic ==
    (req.pc = "done" /\ req.commits = 0) => resp \in req.atomic


\* ------------------------------------------------------------------------
\* Referential integrity of the authorization records
\* ------------------------------------------------------------------------
\* Every person_id and vehicle_id of a record, active or not, that is not
\* NULL is the id of a row.
ReferencesExist ==
    \A a \in DOMAIN authorizations :
        /\ authorizations[a].person_id # None
              => The(authorizations[a].person_id) \in DOMAIN persons
        /\ authorizations[a].vehicle_id # None
              => The(authorizations[a].vehicle_id) \in DOMAIN vehicles

\* The records left are those of `kept`, unchanged.
RecordsKept(kept) ==
    /\ DOMAIN authorizations' = kept
    /\ \A a \in kept : authorizations'[a] = authorizations[a]

\* C25: in every state reached by create and delete calls on persons,
\* vehicles and authorizations each person_id and vehicle_id of a record
\* that is not NULL names an existing row; delete_person and delete_vehicle
\* remove the records that name the deleted row and no other record;
\* delete_authorization removes no record and sets is_active of one to
\* FALSE.
C25_ReferencesExistAndDeletesCascade ==
    /\ []ReferencesExist
    /\ [][ /\ (req'.endpoint = "delete_person" /\ resp'.status = 204) =>
                RecordsKept({a \in DOMAIN authorizations :
                                authorizations[a].person_id # req'.person_id})
           /\ (req'.endpoint = "delete_vehicle" /\ resp'.status = 204) =>
                RecordsKept({a \in DOMAIN authorizations :
                                authorizations[a].vehicle_id # req'.vehicle_id})
           /\ (req'.endpoint = "delete_authorization" /\ resp'.status = 204) =>
                \E id \in DOMAIN authorizations :
                    authorizations' = [authorizations EXCEPT ![id].is_active = FALSE]
         ]_vars

\* A vehicle was deleted; the record of id 1 went with it and the record of
\* id 2, which names a row that still exists, was kept.
C25_Witness ==
    /\ req.endpoint = "delete_vehicle"
    /\ resp.status = 204
    /\ DOMAIN authorizations = {2}
    /\ authorizations[2].person_id # None \/ authorizations[2].vehicle_id # None

\* A record set inactive by delete_authorization is still stored.
C25_WitnessSoftDelete ==
    /\ req.endpoint = "delete_authorization"
    /\ resp.status = 204
    /\ \E a \in DOMAIN authorizations : ~authorizations[a].is_active


\* ------------------------------------------------------------------------
\* Registration of a vehicle, then recognition of its plate
\* (vehicles.py 13-24, authorizations.py 18-47, access.py 28-160)
\* ------------------------------------------------------------------------
\* Most rows of the vehicle table and of the authorization table.
MaxStored == 2

\* Plates sent to create_vehicle: an old-format and a Mercosul plate in the
\* stored form, the Mercosul plate in lower case, the old-format plate with
\* its hyphen.
LookupPlates ==
    {<<"A","B","C","1","2","3","4">>,
     <<"A","B","C","1","D","2","3">>,
     <<"a","b","c","1","d","2","3">>,
     <<"A","B","C","-","1","2","3","4">>}

\* OCR texts of the plate image of an access check.
LookupTexts ==
    {<<"A","B","C","1","2","3","4">>,
     <<"a","b","c","-","1","2","3","4">>,
     <<"A","B","C","1","D","2","3">>,
     <<"A","b","C"," ","1","d","2","3">>,
     <<"X","Y","Z","7","7","8","8">>}

\* The upload of an image whose one candidate region OCR reads as `text`.
PlateUploadOf(text) ==
    Upload(TRUE, FALSE, Some(Image([rois |-> <<text>>, whole |-> <<>>], None)))

InitLookup ==
    /\ persons = << >>
    /\ vehicles = << >>
    /\ authorizations = << >>
    /\ req = NoRequest
    /\ resp = NoResponse

\* vehicles.py 13-24
RegisterVehicle ==
    \E plate \in LookupPlates :
        /\ req' = CrudRequest("create_vehicle", None, None, Some(plate))
        /\ IF create_vehicle_check(plate) # None
           THEN /\ resp' = The(create_vehicle_check(plate))
                /\ UNCHANGED vehicles
           ELSE /\ NextId(vehicles) <= MaxStored
                /\ vehicles' = create_vehicle_commit(plate_upper(plate)).vehicles
                /\ resp' = create_vehicle_commit(plate_upper(plate)).resp
        /\ UNCHANGED <<persons, authorizations>>

\* authorizations.py 18-47, for a body with vehicle_id only.
GrantVehicleOnly ==
    \E vehicle_id \in 1..MaxStored :
        /\ req' = CrudRequest("create_authorization", None, Some(vehicle_id), None)
        /\ resp' = create_authorization(None, Some(vehicle_id))
        /\ IF create_authorization(None, Some(vehicle_id)).status = 200
           THEN /\ NextId(authorizations) <= MaxStored
                /\ authorizations' =
                      Insert(authorizations, Authorization(None, Some(vehicle_id), TRUE))
           ELSE UNCHANGED authorizations
        /\ UNCHANGED <<persons, vehicles>>

\* access.py 28-160, for a request with a plate image and no face image.
CheckPlate ==
    \E text \in LookupTexts :
        /\ req' = CrudRequest("check_access", None, None, Some(text))
        /\ resp' = check_access(PlateUploadOf(text), Absent, <<>>)
        /\ UNCHANGED <<persons, vehicles, authorizations>>

NextLookup ==
    \/ RegisterVehicle
    \/ GrantVehicleOnly
    \/ CheckPlate

SpecLookup == InitLookup /\ [][NextLookup]_vars

\* The normalized form of the OCR text of the access check.
CheckedPlate == _normalize_plate_text(The(req.plate))

\* The active vehicles stored with the normalized form of the text read.
VehiclesOfCheckedPlate ==
    {v \in DOMAIN vehicles : vehicles[v].is_active /\ vehicles[v].plate = CheckedPlate}

\* The vehicle has an active vehicle-only record.
HasVehicleOnlyRecord(v) ==
    \E a \in DOMAIN authorizations :
        /\ authorizations[a].is_active
        /\ authorizations[a].person_id = None
        /\ authorizations[a].vehicle_id = Some(v)

\* C26: when an active vehicle is stored with the 7 normalized characters
\* (old format or Mercosul) of the text an access check reads, the check
\* finds it (vehicle_authorized = TRUE), and allows when the vehicle has an
\* active vehicle-only record.
C26_StoredFormIsFound ==
    ( /\ req.endpoint = "check_access"
      /\ OldShape(CheckedPlate) \/ MercosulShape(CheckedPlate)
      /\ VehiclesOfCheckedPlate # {} )
    => /\ resp.status = 200
       /\ resp.vehicle_authorized = Some(TRUE)
       /\ (\E v \in VehiclesOfCheckedPlate : HasVehicleOnlyRecord(v)) => resp.allowed

\* The same for Mercosul plates only.
C26_MercosulStoredFormIsFound ==
    ( /\ req.endpoint = "check_access"
      /\ MercosulShape(CheckedPlate)
      /\ VehiclesOfCheckedPlate # {} )
    => /\ resp.status = 200
       /\ resp.vehicle_authorized = Some(TRUE)
       /\ (\E v \in VehiclesOfCheckedPlate : HasVehicleOnlyRecord(v)) => resp.allowed

\* An old-format plate is found when it was stored with its hyphen.
C26_OldFoundWhenStoredWithHyphen ==
    /\ req.endpoint = "check_access"
    /\ OldShape(CheckedPlate)
    /\ resp.status = 200
    /\ resp.vehicle_authorized = Some(TRUE)
    /\ resp.allowed


\* ------------------------------------------------------------------------
\* The upload endpoint and the camera endpoint on the same images
\* (access.py 28-160 and 163-281)
\* ------------------------------------------------------------------------
\* What one look at the checkpoint shows: the plate scene and the face.
Sight(scene, face) == [scene |-> scene, face |-> face]

\* The uploads of a client that sends what the camera would capture: a
\* plate image when a plate is in sight, a face image when a face is.
UploadsOf(sight) ==
    [plate_image |-> IF sight.scene = NoText THEN Absent
                     ELSE Upload(TRUE, FALSE, Some(Image(sight.scene, None))),
     face_image  |-> IF sight.face = None THEN Absent
                     ELSE Upload(TRUE, FALSE, Some(Image(NoText, sight.face)))]

\* The camera that captures the same: the first frame with the plate, the
\* second with the face.
CameraOf(sight) ==
    Camera(TRUE, Some(Image(sight.scene, sight.face)), Some(Image(NoText, sight.face)))

\* The same sight and the same database answered by both endpoints.
BothEndpoints ==
    \E scene \in PlateScenes, face \in ProbeFaces, order \in RowOrders :
        /\ Idle
        /\ req' = [endpoint |-> "both", sight |-> Sight(scene, face), order |-> order]
        /\ resp' = [endpoint |-> "both",
                    status   |-> 200,
                    queries  |-> <<>>,
                    upload   |-> check_access(UploadsOf(Sight(scene, face)).plate_image,
                                              UploadsOf(Sight(scene, face)).face_image, order),
                    camera   |-> check_access_from_camera(CameraOf(Sight(scene, face)), order)]
        /\ UNCHANGED <<persons, vehicles, authorizations>>

NextBoth == BothEndpoints

SpecBoth == Init /\ [][NextBoth]_vars

\* C27: on the same database and the same recognizer outputs check_access
\* and check_access_from_camera return the same allowed, person_id,
\* person_name, vehicle_plate and vehicle_authorized.
C27_EndpointsDecideAlike ==
    resp.endpoint = "both" =>
        /\ resp.upload.status = 200
        /\ resp.camera.status = 200
        /\ resp.upload.allowed = resp.camera.allowed
        /\ resp.upload.person_id = resp.camera.person_id
        /\ resp.upload.person_name = resp.camera.person_name
        /\ resp.upload.vehicle_plate = resp.camera.vehicle_plate
        /\ resp.upload.vehicle_authorized = resp.camera.vehicle_authorized

\* Both endpoints allowed a matched person with a plate read.
C27_Witness ==
    /\ resp.endpoint = "both"
    /\ resp.upload.allowed /\ resp.camera.allowed
    /\ resp.upload.person_id # None
    /\ resp.upload.vehicle_plate # None

\* Both endpoints denied, with different messages.
C27_WitnessDenied ==
    /\ resp.endpoint = "both"
    /\ ~resp.upload.allowed /\ ~resp.camera.allowed
    /\ resp.upload.vehicle_authorized = Some(TRUE)
    /\ resp.upload.message # resp.camera.message

=============================================================================
